---- MODULE Spec2Model ----
(***************************************************************************)
(* OnlineGS: the Express/Firestore backend (routes/groups.js, chat.js,     *)
(* notes.js, tasks.js, auth.js) and the Socket.io room/presence layer      *)
(* (socket/socketHandler.js).                                              *)
(*                                                                         *)
(* Every async handler is cut at its awaits: one action is one store       *)
(* operation together with the synchronous code that follows it up to the  *)
(* next await (or the response).  Handlers of different requests           *)
(* interleave between these actions, as on the Node event loop.            *)
(***************************************************************************)
EXTENDS Integers, Sequences, FiniteSets, TLC

\* ------------------------------------------------------------------ bounds
Users == {"u1", "u2", "u3"}
GroupIds == {"g1", "g2"}
ReqIds == {"r1", "r2"}
\* requests started while another request is still in flight
MaxOverlap == 1
\* distinct values of new Date() after the initial one
MaxClock == 1

Conns == {"c1", "c2", "c3"}
\* message documents created in one behaviour
MaxMsgs == 2
\* task documents created in one behaviour
MaxTasks == 1
\* user documents that registrations create in one behaviour
MaxUsers == 2
\* note saves accepted for one group in one behaviour
MaxSaves == 3
\* note contents a client may save
Contents == {"A", "B"}
\* the group id doc() hands out in a run that starts from an empty database
InitFreeIds == {"g1"}

NoUser == "nobody"
NoGroup == "nogroup"

VARIABLES
  groups,      \* Firestore collection "groups": GroupIds -> document
  userGroups,  \* Firestore "users/{id}.groups"
  clock,       \* the millisecond new Date() last returned
  reqs,        \* REST handlers in flight: ReqIds -> continuation
  resp,        \* the HTTP response sent by the last step
  freeIds,     \* ids that db.collection("groups").doc() can still hand out
  overlaps,    \* handlers started so far while another was awaiting
  messages,    \* Firestore collection "messages": a set of documents
  msgIds,      \* message ids that doc() has handed out
  sockState,   \* per connection: "new", "connected" or "closed"
  sockUser,    \* per connection: socket.user (the userId, or NoUser for null)
  joinedGroups,\* per connection: the handler closure's joinedGroups Set
  rooms,       \* Socket.io adapter: room (group id) -> connections in it
  onlineUsers, \* the module-level Map groupId -> Map userId -> userInfo
  emitted,     \* the Socket.io events sent by the last step, in order
  notes,       \* Firestore collection "notes": GroupIds -> document
  noteHistory, \* notes/{groupId}/noteHistory: the entries in the order added
  saveLog,     \* history variable: per group, the versions written, in order
  tasks,       \* Firestore collection "tasks": the set of documents
  taskIds,     \* how many task documents have been given an id
  users,       \* Firestore collection "users": the identity fields of the
               \* documents the auth routes write (their groups: userGroups)
  userIds,     \* how many user documents doc() has given an id
  sentAuth,    \* history variable: per connection, the user whose valid JWT
               \* the client last sent in an authenticate event
  chatView     \* the Chat component of u1's browser: its messages state, the
               \* history response and new_message events on their way to it

groupVars == <<groups, userGroups, freeIds>>
chatVars == <<messages, msgIds>>
noteVars == <<notes, noteHistory, saveLog>>
taskVars == <<tasks, taskIds>>
authVars == <<users, userIds, sentAuth, chatView>>
sockVars == <<sockState, sockUser, joinedGroups, rooms, onlineUsers>>
vars == <<groups, userGroups, clock, reqs, resp, freeIds, overlaps,
          messages, msgIds, sockState, sockUser, joinedGroups, rooms, onlineUsers,
          emitted, notes, noteHistory, saveLog, tasks, taskIds, users, userIds,
          sentAuth, chatView>>

\* ------------------------------------------------------------- primitives
\* String.prototype.toUpperCase on a string given as a sequence of characters
UpperChar(ch) ==
  CASE ch = "a" -> "A"
    [] ch = "b" -> "B"
    [] OTHER -> ch

ToUpperCase(s) == [i \in 1..Len(s) |-> UpperChar(s[i])]

\* the first characters of uuidv4().replace(/-/g, ""): lower-case hex
RawCodes == {<<"a", "3">>, <<"b", "3">>}
\* invite codes a client may type
CodeInputs == {<<"a", "3">>, <<"A", "3">>, <<"B", "3">>}
\* the same and codes typed with blanks: around the code, inside it, alone
TypedCodes ==
  CodeInputs \cup {<<" ", "a", "3">>, <<"A", "3", " ">>, <<"a", " ", "3">>, <<" ">>, <<>>}

\* a text as leading blanks, a core that starts and ends with a non-blank
\* character (or is empty), and trailing blanks
Text(lead, core, trail) == [lead |-> lead, core |-> core, trail |-> trail]
\* String.prototype.trim, and express-validator's trim() sanitizer
Trim(t) == Text(0, t.core, 0)
TextLen(t) == t.lead + t.core + t.trail
\* the longest message text that is accepted
MaxTextLen == 2000
\* texts a client may send: "x", " x ", " " and one of 2001 characters
Texts == {Text(0, 1, 0), Text(1, 1, 1), Text(1, 0, 0), Text(0, MaxTextLen + 1, 0)}

\* mutant: the length limit is not checked
TextStatusNoLimit(t) == IF TextLen(Trim(t)) = 0 THEN "empty" ELSE "ok"

\* the checks both posting paths make on the text
TextStatus(t) ==
  IF TextLen(Trim(t)) = 0 THEN "empty"
  ELSE IF TextLen(Trim(t)) > MaxTextLen THEN "long"
  ELSE "ok"

\* new Date(): the clock does not run backwards; two calls may see the same ms
Nows == {clock} \cup (IF clock < MaxClock THEN {clock + 1} ELSE {})

Range(s) == {s[i] : i \in 1..Len(s)}

\* Array.prototype.some((m) => m.userId === userId)
IsMember(members, u) == \E i \in 1..Len(members) : members[i].userId = u

\* Array.prototype.filter((m) => m.userId !== userId)
RECURSIVE FilterOut(_, _)
FilterOut(members, u) ==
  IF members = <<>> THEN <<>>
  ELSE IF Head(members).userId = u THEN FilterOut(Tail(members), u)
       ELSE <<Head(members)>> \o FilterOut(Tail(members), u)

\* Array.prototype.find((m) => m.userId === userId)
FindMember(members, u) ==
  members[CHOOSE i \in 1..Len(members) :
            /\ members[i].userId = u
            /\ \A j \in 1..(i - 1) : members[j].userId # u]

\* FieldValue.arrayUnion(x): appended unless an equal element is present
\* mutant: appended also when an equal element is present
ArrayUnionAlways(arr, x) == Append(arr, x)
ArrayUnion(arr, x) == IF x \in Range(arr) THEN arr ELSE Append(arr, x)

NoDoc == [exists |-> FALSE, members |-> <<>>, inviteCode |-> <<>>]
Exists(doc) == doc.exists

Idle == [pc |-> "idle"]
NoResp == [status |-> 0]
Quiet == \A r \in ReqIds : reqs[r] = Idle

Respond(r, rec) ==
  /\ resp' = rec
  /\ reqs' = [reqs EXCEPT ![r] = Idle]

Continue(r, rec) ==
  /\ resp' = NoResp
  /\ reqs' = [reqs EXCEPT ![r] = rec]

\* a new request takes the first free continuation slot
FirstIdle(r) ==
  /\ reqs[r] = Idle
  /\ r = "r2" => reqs["r1"] # Idle

Begin(r) ==
  /\ FirstIdle(r)
  /\ IF Quiet
     THEN overlaps' = overlaps
     ELSE /\ overlaps < MaxOverlap
          /\ overlaps' = overlaps + 1

\* ------------------------------------------------------ routes/groups.js
\* POST /api/groups: validation, then groupRef.set(groupData)
CreateGroup(r, u, valid, raw) ==
  /\ UNCHANGED <<chatVars, sockVars, noteVars, taskVars, authVars>>
  /\ emitted' = <<>>
  /\ Begin(r)
  /\ IF ~valid
     THEN /\ Respond(r, [kind |-> "create", user |-> u, group |-> NoGroup,
                         status |-> 400, data |-> FALSE])
          /\ UNCHANGED <<groups, userGroups, clock, freeIds>>
     ELSE \E g \in freeIds, t \in Nows :
            /\ freeIds' = freeIds \ {g}
            /\ clock' = t
            /\ groups' = [groups EXCEPT ![g] =
                 [exists |-> TRUE,
                  inviteCode |-> ToUpperCase(raw),
                  members |-> <<[userId |-> u, role |-> "admin", joinedAt |-> t]>>]]
            /\ Continue(r, [pc |-> "create_user", user |-> u, group |-> g])
            /\ UNCHANGED userGroups

\* POST /api/groups: users/{userId}.update({groups: arrayUnion(id)}), then 201
CreateGroupUser(r) ==
  /\ UNCHANGED <<chatVars, sockVars, noteVars, taskVars, authVars>>
  /\ emitted' = <<>>
  /\ reqs[r].pc = "create_user"
  /\ userGroups' = [userGroups EXCEPT ![reqs[r].user] = @ \cup {reqs[r].group}]
  /\ Respond(r, [kind |-> "create", user |-> reqs[r].user, group |-> reqs[r].group,
                 status |-> 201, data |-> TRUE])
  /\ UNCHANGED <<groups, clock, freeIds, overlaps>>

\* GET /api/groups/:groupId
GetGroup(r, u, g) ==
  /\ UNCHANGED <<chatVars, sockVars, noteVars, taskVars, authVars>>
  /\ emitted' = <<>>
  /\ Begin(r)
  /\ Respond(r, [kind |-> "get_group", user |-> u, group |-> g,
                 status |-> IF ~Exists(groups[g]) THEN 404
                            ELSE IF ~IsMember(groups[g].members, u) THEN 403
                            ELSE 200,
                 data |-> Exists(groups[g]) /\ IsMember(groups[g].members, u),
                 valid |-> TRUE])
  /\ UNCHANGED <<groups, userGroups, clock, freeIds>>

\* GET /api/groups/:groupId/members
GetMembers(r, u, g) ==
  /\ UNCHANGED <<chatVars, sockVars, noteVars, taskVars, authVars>>
  /\ emitted' = <<>>
  /\ Begin(r)
  /\ Respond(r, [kind |-> "get_members", user |-> u, group |-> g,
                 status |-> IF ~Exists(groups[g]) THEN 404
                            ELSE IF ~IsMember(groups[g].members, u) THEN 403
                            ELSE 200,
                 data |-> Exists(groups[g]) /\ IsMember(groups[g].members, u),
                 valid |-> TRUE])
  /\ UNCHANGED <<groups, userGroups, clock, freeIds>>

\* body("inviteCode").trim(): the code without the blanks around it
RECURSIVE TrimCode(_)
TrimCode(code) ==
  IF code = <<>> THEN <<>>
  ELSE IF Head(code) = " " THEN TrimCode(Tail(code))
  ELSE IF code[Len(code)] = " " THEN TrimCode(SubSeq(code, 1, Len(code) - 1))
  ELSE code

\* mutant: the duplicate-membership check left out
JoinStatusNoConflict(doc, u, code) ==
  IF TrimCode(code) = <<>> THEN 400
  ELSE IF ~Exists(doc) THEN 404
  ELSE IF ToUpperCase(doc.inviteCode) # ToUpperCase(TrimCode(code)) THEN 400
  ELSE 200

\* mutant: the invite code is not compared
JoinStatusAnyCode(doc, u, code) ==
  IF TrimCode(code) = <<>> THEN 400
  ELSE IF ~Exists(doc) THEN 404
  ELSE IF IsMember(doc.members, u) THEN 409
  ELSE 200

\* the checks POST /api/groups/:groupId/join makes: notEmpty() on the
\* trimmed code, then those on the snapshot
JoinStatus(doc, u, code) ==
  IF TrimCode(code) = <<>> THEN 400
  ELSE IF ~Exists(doc) THEN 404
  ELSE IF ToUpperCase(doc.inviteCode) # ToUpperCase(TrimCode(code)) THEN 400
  ELSE IF IsMember(doc.members, u) THEN 409
  ELSE 200

\* POST /api/groups/:groupId/join up to the first write: groupRef.get() and
\* the checks on the snapshot
JoinRead(r, u, g, code) ==
  /\ UNCHANGED <<chatVars, sockVars, noteVars, taskVars, authVars>>
  /\ emitted' = <<>>
  /\ Begin(r)
  /\ LET st == JoinStatus(groups[g], u, code) IN
     IF st # 200
     THEN /\ Respond(r, [kind |-> "join", user |-> u, group |-> g,
                         status |-> st, data |-> FALSE, code |-> code])
          /\ UNCHANGED clock
     ELSE \E t \in Nows :
            /\ clock' = t
            /\ Continue(r, [pc |-> "join_update", user |-> u, group |-> g,
                            code |-> code,
                            newMember |-> [userId |-> u, role |-> "member",
                                           joinedAt |-> t]])
  /\ UNCHANGED <<groups, userGroups, freeIds>>

\* groupRef.update({members: arrayUnion(newMember)}); update() of a missing
\* document rejects and the catch block answers 500
JoinUpdate(r) ==
  /\ UNCHANGED <<chatVars, sockVars, noteVars, taskVars, authVars>>
  /\ emitted' = <<>>
  /\ reqs[r].pc = "join_update"
  /\ LET g == reqs[r].group IN
     IF ~Exists(groups[g])
     THEN /\ Respond(r, [kind |-> "join", user |-> reqs[r].user, group |-> g,
                         status |-> 500, data |-> FALSE])
          /\ UNCHANGED groups
     ELSE /\ groups' = [groups EXCEPT ![g].members =
                          ArrayUnion(@, reqs[r].newMember)]
          /\ Continue(r, [reqs[r] EXCEPT !.pc = "join_user"])
  /\ UNCHANGED <<userGroups, clock, freeIds, overlaps>>

\* users/{userId}.update({groups: arrayUnion(groupId)}), then 200
JoinUser(r) ==
  /\ UNCHANGED <<chatVars, sockVars, noteVars, taskVars, authVars>>
  /\ emitted' = <<>>
  /\ reqs[r].pc = "join_user"
  /\ userGroups' = [userGroups EXCEPT ![reqs[r].user] = @ \cup {reqs[r].group}]
  /\ Respond(r, [kind |-> "join", user |-> reqs[r].user, group |-> reqs[r].group,
                 status |-> 200, data |-> TRUE])
  /\ UNCHANGED <<groups, clock, freeIds, overlaps>>

\* mutants of the promotion: nobody promoted; the last entry promoted
PromoteNobody(remaining) == remaining
PromoteLast(remaining) == [remaining EXCEPT ![Len(remaining)].role = "admin"]

\* remainingMembers[0].role = "admin"
Promote(remaining) == [remaining EXCEPT ![1].role = "admin"]

\* remainingMembers as the leave handler writes it: the filtered list, its
\* first entry promoted when the leaver was an admin and no admin remains
RemainingMembers(members, memberEntry) ==
  LET remaining == FilterOut(members, memberEntry.userId)
      hasOtherAdmin == \E i \in 1..Len(remaining) : remaining[i].role = "admin"
  IN IF remaining # <<>> /\ memberEntry.role = "admin" /\ ~hasOtherAdmin
     THEN Promote(remaining)
     ELSE remaining

\* POST /api/groups/:groupId/leave up to the first write
LeaveRead(r, u, g) ==
  /\ UNCHANGED <<chatVars, sockVars, noteVars, taskVars, authVars>>
  /\ emitted' = <<>>
  /\ Begin(r)
  /\ IF ~Exists(groups[g])
     THEN Respond(r, [kind |-> "leave", user |-> u, group |-> g,
                      status |-> 404, data |-> FALSE])
     ELSE IF ~IsMember(groups[g].members, u)
     THEN Respond(r, [kind |-> "leave", user |-> u, group |-> g,
                      status |-> 400, data |-> FALSE])
     ELSE LET memberEntry == FindMember(groups[g].members, u) IN
          Continue(r, [pc |-> "leave_write", user |-> u, group |-> g,
                       memberEntry |-> memberEntry,
                       remaining |-> RemainingMembers(groups[g].members, memberEntry)])
  /\ UNCHANGED <<groups, userGroups, clock, freeIds>>

\* groupRef.delete() when nobody remains, else groupRef.update({members})
LeaveWrite(r) ==
  /\ UNCHANGED <<chatVars, sockVars, noteVars, taskVars, authVars>>
  /\ emitted' = <<>>
  /\ reqs[r].pc = "leave_write"
  /\ LET g == reqs[r].group IN
     IF reqs[r].remaining = <<>>
     THEN /\ groups' = [groups EXCEPT ![g] =
                          NoDoc]
          /\ Continue(r, [reqs[r] EXCEPT !.pc = "leave_user"])
     ELSE IF ~Exists(groups[g])
     THEN /\ Respond(r, [kind |-> "leave", user |-> reqs[r].user, group |-> g,
                         status |-> 500, data |-> FALSE])
          /\ UNCHANGED groups
     ELSE /\ groups' = [groups EXCEPT ![g].members = reqs[r].remaining]
          /\ Continue(r, [reqs[r] EXCEPT !.pc = "leave_user"])
  /\ UNCHANGED <<userGroups, clock, freeIds, overlaps>>

\* users/{userId}.update({groups: arrayRemove(groupId)}), then 200
LeaveUser(r) ==
  /\ UNCHANGED <<chatVars, sockVars, noteVars, taskVars, authVars>>
  /\ emitted' = <<>>
  /\ reqs[r].pc = "leave_user"
  /\ userGroups' = [userGroups EXCEPT ![reqs[r].user] = @ \ {reqs[r].group}]
  /\ Respond(r, [kind |-> "leave", user |-> reqs[r].user, group |-> reqs[r].group,
                 status |-> 200, data |-> FALSE])
  /\ UNCHANGED <<groups, clock, freeIds, overlaps>>

\* ------------------------------------------------ socket/socketHandler.js
\* a JS Map as a function; Map.prototype.set and Map.prototype.delete
EmptyMap == [k \in {} |-> k]
MapSet(m, k, v) == [x \in (DOMAIN m) \cup {k} |-> IF x = k THEN v ELSE m[x]]
MapDelete(m, k) == [x \in (DOMAIN m) \ {k} |-> m[x]]

\* the handshake tokens the clients hold: c1 and c2 are two tabs of u2, c3
\* is u1's browser, with a token or (logged out) without one
HandshakeTokens(c) == IF c = "c3" THEN {"u1", NoUser} ELSE {"u2"}

\* mutant: the entry is written under the socket id instead of the user id
AddOnlineUserBySocket(ou, g, userInfo) ==
  MapSet(ou, g, MapSet(IF g \in DOMAIN ou THEN ou[g] ELSE EmptyMap,
                       userInfo.socketId, userInfo))

\* addOnlineUser(groupId, userInfo)
AddOnlineUser(ou, g, userInfo) ==
  MapSet(ou, g, MapSet(IF g \in DOMAIN ou THEN ou[g] ELSE EmptyMap,
                       userInfo.userId, userInfo))

\* mutant: the user is never taken off the roster
RemoveOnlineUserNever(ou, g, u) == ou

\* removeOnlineUser(groupId, userId)
RemoveOnlineUser(ou, g, u) ==
  IF g \in DOMAIN ou
  THEN LET m == MapDelete(ou[g], u)
       IN IF DOMAIN m = {} THEN MapDelete(ou, g) ELSE MapSet(ou, g, m)
  ELSE ou

\* mutant: the snapshot is always empty
GetOnlineUsersNone(ou, g) == {}

\* getOnlineUsers(groupId): the roster's values (their order is left out)
GetOnlineUsers(ou, g) ==
  IF g \notin DOMAIN ou THEN {} ELSE {ou[g][u] : u \in DOMAIN ou[g]}

\* Set.prototype.add / delete on joinedGroups, which keeps insertion order
SetAdd(q, g) == IF g \in Range(q) THEN q ELSE Append(q, g)
\* mutant: the group stays in the set
SetDeleteNever(q, g) == q

RECURSIVE SetDelete(_, _)
SetDelete(q, g) ==
  IF q = <<>> THEN <<>>
  ELSE IF Head(q) = g THEN Tail(q)
       ELSE <<Head(q)>> \o SetDelete(Tail(q), g)

\* sockets that receive a packet: a closed socket receives nothing
Live(cs) == {c \in cs : sockState[c] = "connected"}

Event(ev, to, room, u, arg) ==
  [ev |-> ev, to |-> to, room |-> room, userId |-> u, arg |-> arg]
ErrorTo(c, text) == Event("error", Live({c}), NoGroup, NoUser, text)

\* mutant: the identity of the connection is not looked at
HasIdentityAlways(u) == TRUE

\* socket.user as a condition: null when the handshake carried no token
HasIdentity(u) == u # NoUser

SockFrame == UNCHANGED <<groupVars, noteVars, taskVars, authVars>> /\ resp' = NoResp

\* a client opens a connection; io.use sets socket.user to the decoded
\* token, or to null when the handshake carries none
Connect(c, token) ==
  /\ sockState[c] = "new"
  /\ sockState' = [sockState EXCEPT ![c] = "connected"]
  /\ sockUser' = [sockUser EXCEPT ![c] = token]
  /\ emitted' = <<>>
  /\ SockFrame
  /\ UNCHANGED <<chatVars, clock, reqs, overlaps, joinedGroups, rooms, onlineUsers>>

\* an authenticate event with the valid JWT of user u: the connection handler
\* registers no listener for it, so that the packet is dropped
Authenticate(c, u) ==
  /\ sockState[c] = "connected"
  /\ sentAuth' = [sentAuth EXCEPT ![c] = u]
  /\ emitted' = <<>>
  /\ resp' = NoResp
  /\ UNCHANGED <<groupVars, chatVars, noteVars, taskVars, sockVars, users, userIds,
                 chatView, clock, reqs, overlaps>>

\* join_group that ends before any await: no identity, or no groupId
JoinGroupRefused(c, g) ==
  /\ sockState[c] = "connected"
  /\ ~HasIdentity(sockUser[c]) \/ g = NoGroup
  /\ emitted' = <<ErrorTo(c, IF ~HasIdentity(sockUser[c])
                            THEN "Authentication required."
                            ELSE "groupId is required.")>>
  /\ SockFrame
  /\ UNCHANGED <<chatVars, clock, reqs, overlaps, sockVars>>

\* join_group up to await db.collection("groups").doc(groupId).get()
JoinGroupRecv(r, c, g) ==
  /\ sockState[c] = "connected"
  /\ HasIdentity(sockUser[c])
  /\ Begin(r)
  /\ reqs' = [reqs EXCEPT ![r] = [pc |-> "sock_join", conn |-> c, group |-> g,
                                  overtaken |-> FALSE]]
  /\ emitted' = <<>>
  /\ SockFrame
  /\ UNCHANGED <<chatVars, clock, sockVars>>

\* mutant: every user is taken for a member of an existing group
JoinGroupStatusOpen(doc, u) == IF ~Exists(doc) THEN "missing" ELSE "ok"

\* the checks of join_group on the snapshot it has just read
JoinGroupStatus(doc, u) ==
  IF ~Exists(doc) THEN "missing"
  ELSE IF ~IsMember(doc.members, u) THEN "outsider"
  ELSE "ok"

\* join_group after the read: the checks on the snapshot, then socket.join,
\* the roster entry and the two notifications.  socket.join() of a socket
\* that has disconnected does nothing (Socket.io 4 replaces it on cleanup)
JoinGroupResume(r) ==
  /\ reqs[r].pc = "sock_join"
  /\ LET c == reqs[r].conn
         g == reqs[r].group
         u == sockUser[c]
         st == JoinGroupStatus(groups[g], u)
     IN IF st = "missing"
        THEN /\ emitted' = <<ErrorTo(c, "Group not found.")>>
             /\ UNCHANGED sockVars
        ELSE IF st = "outsider"
        THEN /\ emitted' = <<ErrorTo(c, "You are not a member of this group.")>>
             /\ UNCHANGED sockVars
        ELSE /\ rooms' = [rooms EXCEPT ![g] = @ \cup Live({c})]
             /\ joinedGroups' = [joinedGroups EXCEPT ![c] = SetAdd(@, g)]
             /\ onlineUsers' = AddOnlineUser(onlineUsers, g,
                                  [userId |-> u, socketId |-> c])
             /\ emitted' =
                  <<Event("user_joined", rooms[g] \ {c}, g, u, ""),
                    Event("online_users", Live({c}), g, NoUser,
                          GetOnlineUsers(onlineUsers', g))>>
             /\ UNCHANGED <<sockState, sockUser>>
  /\ reqs' = [reqs EXCEPT ![r] = Idle]
  /\ SockFrame
  /\ UNCHANGED <<chatVars, clock, overlaps>>

\* history: the join_group events of connection c for group g that await
\* their read are marked as overtaken by a leave_group that arrived later
Overtake(q, c, g) ==
  [r \in ReqIds |->
     IF q[r].pc = "sock_join" /\ q[r].conn = c /\ q[r].group = g
     THEN [q[r] EXCEPT !.overtaken = TRUE]
     ELSE q[r]]

\* leave_group (synchronous)
LeaveGroup(c, g) ==
  /\ sockState[c] = "connected"
  /\ rooms' = [rooms EXCEPT ![g] = @ \ {c}]
  /\ joinedGroups' = [joinedGroups EXCEPT ![c] = SetDelete(@, g)]
  /\ onlineUsers' = RemoveOnlineUser(onlineUsers, g, sockUser[c])
  /\ emitted' = <<Event("user_left", rooms[g] \ {c}, g, sockUser[c], "")>>
  /\ reqs' = Overtake(reqs, c, g)
  /\ SockFrame
  /\ UNCHANGED <<chatVars, clock, overlaps, sockState, sockUser>>

\* typing and stop_typing (synchronous): relayed to the rest of the room
Typing(c, g, ev) ==
  /\ sockState[c] = "connected"
  /\ emitted' = IF sockUser[c] = NoUser THEN <<>>
                ELSE <<Event(ev, rooms[g] \ {c}, g, sockUser[c], "")>>
  /\ SockFrame
  /\ UNCHANGED <<chatVars, clock, reqs, overlaps, sockVars>>

\* the forEach of the disconnect handler over joinedGroups, in insertion
\* order: the roster after it, and the user_left events it sends
RECURSIVE CleanupRoster(_, _, _)
CleanupRoster(ou, q, u) ==
  IF q = <<>> THEN ou
  ELSE CleanupRoster(RemoveOnlineUser(ou, Head(q), u), Tail(q), u)

\* mutant: user_left goes out twice for each group
CleanupEventsTwice(q, u, rms) ==
  [i \in 1..(2 * Len(q)) |->
     Event("user_left", rms[q[(i + 1) \div 2]], q[(i + 1) \div 2], u, "")]

CleanupEvents(q, u, rms) ==
  [i \in 1..Len(q) |-> Event("user_left", rms[q[i]], q[i], u, "")]

\* the client goes away: Socket.io takes the socket out of every room, then
\* runs the disconnect handler
Disconnect(c) ==
  /\ sockState[c] = "connected"
  /\ sockState' = [sockState EXCEPT ![c] = "closed"]
  /\ rooms' = [g \in GroupIds |-> rooms[g] \ {c}]
  /\ onlineUsers' = CleanupRoster(onlineUsers, joinedGroups[c], sockUser[c])
  /\ emitted' = CleanupEvents(joinedGroups[c], sockUser[c], rooms')
  /\ joinedGroups' = [joinedGroups EXCEPT ![c] = <<>>]
  /\ SockFrame
  /\ UNCHANGED <<chatVars, clock, reqs, overlaps, sockUser>>

\* -------------------------------------------------------- routes/chat.js
\* mutant: requireGroupMembership lets every caller of an existing group in
MembershipStatusOpen(doc, u) == IF ~Exists(doc) THEN 404 ELSE 200

\* requireGroupMembership(groupId, userId): the status of the error it
\* throws, or 200
MembershipStatus(doc, u) ==
  IF ~Exists(doc) THEN 404
  ELSE IF ~IsMember(doc.members, u) THEN 403
  ELSE 200

\* the message document both posting paths build
Message(id, g, u, text, t) ==
  [exists |-> TRUE, messageId |-> id, groupId |-> g, senderId |-> u,
   text |-> Trim(text), createdAt |-> t]

ChatFrame == UNCHANGED <<groupVars, sockVars, noteVars, taskVars, authVars>>

\* POST /api/chat/:groupId/messages: validation, requireGroupMembership,
\* and the message document, up to await messageRef.set(message)
PostMessage(r, u, g, text) ==
  /\ Begin(r)
  /\ ChatFrame
  /\ emitted' = <<>>
  /\ UNCHANGED messages
  /\ LET st == IF TextStatus(text) # "ok" THEN 400
               ELSE MembershipStatus(groups[g], u)
     IN IF st # 200
        THEN /\ Respond(r, [kind |-> "post_message", user |-> u, group |-> g,
                            status |-> st, data |-> FALSE,
                            valid |-> TextStatus(text) = "ok"])
             /\ UNCHANGED <<msgIds, clock>>
        ELSE \E t \in Nows :
               /\ msgIds < MaxMsgs
               /\ msgIds' = msgIds + 1
               /\ clock' = t
               /\ Continue(r, [pc |-> "post_write", user |-> u, group |-> g,
                               text |-> text,
                               message |-> Message(msgIds + 1, g, u, text, t)])

\* messageRef.set(message), io.to(groupId).emit("new_message"), then 201
PostMessageWrite(r) ==
  /\ reqs[r].pc = "post_write"
  /\ messages' = messages \cup {reqs[r].message}
  /\ emitted' = <<Event("new_message", Live(rooms[reqs[r].group]), reqs[r].group,
                        reqs[r].user, reqs[r].message)>>
  /\ Respond(r, [kind |-> "post_message", user |-> reqs[r].user,
                 group |-> reqs[r].group, status |-> 201, data |-> TRUE,
                 valid |-> TRUE])
  /\ ChatFrame
  /\ UNCHANGED <<msgIds, clock, overlaps>>

\* the error a rejected Firestore call throws: it has a message and no status
StoreError == [status |-> 0, message |-> "14 UNAVAILABLE: No connection"]
\* error.status || 500, and error.message || generic, of the catch blocks
ErrorStatus(error) == IF error.status # 0 THEN error.status ELSE 500
ErrorText(error, generic) == IF error.message # "" THEN error.message ELSE generic

\* mutant: the message goes out although the write was rejected
PostMessageEmitUnwritten(r) ==
  /\ reqs[r].pc = "post_write"
  /\ emitted' = <<Event("new_message", Live(rooms[reqs[r].group]), reqs[r].group,
                        reqs[r].user, reqs[r].message)>>
  /\ Respond(r, [kind |-> "post_message", user |-> reqs[r].user,
                 group |-> reqs[r].group, status |-> 500, data |-> FALSE,
                 valid |-> TRUE, message |-> "Server error posting message."])
  /\ ChatFrame
  /\ UNCHANGED <<chatVars, clock, overlaps>>

\* messageRef.set(message) is rejected: the catch block answers
PostMessageWriteFails(r) ==
  /\ reqs[r].pc = "post_write"
  /\ emitted' = <<>>
  /\ Respond(r, [kind |-> "post_message", user |-> reqs[r].user,
                 group |-> reqs[r].group, status |-> ErrorStatus(StoreError),
                 data |-> FALSE, valid |-> TRUE,
                 message |-> ErrorText(StoreError,
                                       "Server error posting message.")])
  /\ ChatFrame
  /\ UNCHANGED <<chatVars, clock, overlaps>>

\* the document of a message id
NoMessage == [exists |-> FALSE]
MessageDoc(id) ==
  IF \E m \in messages : m.messageId = id
  THEN CHOOSE m \in messages : m.messageId = id
  ELSE NoMessage
MessageIdInputs == 1..MaxMsgs

\* mutant: any member may delete
DeleteStatusAnySender(doc, u, g) ==
  IF ~doc.exists THEN 404
  ELSE IF doc.groupId # g THEN 400
  ELSE 200

\* the checks DELETE makes on the message snapshot
DeleteStatus(doc, u, g) ==
  IF ~doc.exists THEN 404
  ELSE IF doc.senderId # u THEN 403
  ELSE IF doc.groupId # g THEN 400
  ELSE 200

\* DELETE /api/chat/:groupId/messages/:messageId: requireGroupMembership
DeleteMessage(r, u, g, id) ==
  /\ Begin(r)
  /\ ChatFrame
  /\ emitted' = <<>>
  /\ UNCHANGED <<chatVars, clock>>
  /\ IF MembershipStatus(groups[g], u) # 200
     THEN Respond(r, [kind |-> "delete_message", user |-> u, group |-> g,
                      status |-> MembershipStatus(groups[g], u), data |-> FALSE,
                      valid |-> TRUE, message |-> id])
     ELSE Continue(r, [pc |-> "delete_message", user |-> u, group |-> g,
                       message |-> id])

\* msgRef.get() and the checks
DeleteMessageRead(r) ==
  /\ reqs[r].pc = "delete_message"
  /\ ChatFrame
  /\ emitted' = <<>>
  /\ UNCHANGED <<chatVars, clock, overlaps>>
  /\ LET st == DeleteStatus(MessageDoc(reqs[r].message), reqs[r].user, reqs[r].group)
     IN IF st # 200
        THEN Respond(r, [kind |-> "delete_message", user |-> reqs[r].user,
                         group |-> reqs[r].group, status |-> st, data |-> FALSE,
                         valid |-> TRUE, message |-> reqs[r].message])
        ELSE Continue(r, [pc |-> "delete_message_write", user |-> reqs[r].user,
                          group |-> reqs[r].group, message |-> reqs[r].message])

\* msgRef.delete(), io.to(groupId).emit("message_deleted"), then 200
DeleteMessageWrite(r) ==
  /\ reqs[r].pc = "delete_message_write"
  /\ ChatFrame
  /\ messages' = {m \in messages : m.messageId # reqs[r].message}
  /\ emitted' = <<Event("message_deleted", Live(rooms[reqs[r].group]),
                        reqs[r].group, NoUser, reqs[r].message)>>
  /\ Respond(r, [kind |-> "delete_message", user |-> reqs[r].user,
                 group |-> reqs[r].group, status |-> 200, data |-> FALSE,
                 valid |-> TRUE, message |-> reqs[r].message])
  /\ UNCHANGED <<msgIds, clock, overlaps>>

\* the page size when none is asked for, and the largest that is accepted
DefaultLimit == 50
MaxLimit == 100
\* query("limit").optional().isInt({min: 1, max: 100})
LimitValid(hasLimit, limit) == hasLimit => (limit >= 1 /\ limit <= MaxLimit)

\* orderBy("createdAt", "desc").limit(n): the answers Firestore may give,
\* newest first; messages of equal createdAt come in the order of their ids
NewestFirst(S, n) ==
  LET k == IF Cardinality(S) < n THEN Cardinality(S) ELSE n
  IN {p \in [1..k -> S] :
        /\ \A i, j \in 1..k : i # j => p[i] # p[j]
        /\ \A i, j \in 1..k : i < j => p[i].createdAt >= p[j].createdAt
        /\ \A m \in S : \A i \in 1..k :
             m.createdAt > p[i].createdAt => \E j \in 1..k : p[j] = m}
\* mutant: the page is sent as the query returned it
ReverseNot(p) == p
\* Array.prototype.reverse
Reverse(p) == [i \in 1..Len(p) |-> p[Len(p) + 1 - i]]

\* GET /api/chat/:groupId/messages: validation, requireGroupMembership
GetMessages(r, u, g, hasLimit, limit, hasBefore, before) ==
  /\ Begin(r)
  /\ ChatFrame
  /\ emitted' = <<>>
  /\ UNCHANGED <<chatVars, clock>>
  /\ LET st == IF ~LimitValid(hasLimit, limit) THEN 400
               ELSE MembershipStatus(groups[g], u)
     IN IF st # 200
        THEN Respond(r, [kind |-> "get_messages", user |-> u, group |-> g,
                         status |-> st, data |-> FALSE,
                         valid |-> LimitValid(hasLimit, limit)])
        ELSE Continue(r, [pc |-> "get_messages", user |-> u, group |-> g,
                          query |-> [hasLimit |-> hasLimit, limit |-> limit],
                          limit |-> IF hasLimit THEN limit ELSE DefaultLimit,
                          hasBefore |-> hasBefore, before |-> before])

\* the query, then the page in chronological order
GetMessagesQuery(r) ==
  /\ reqs[r].pc = "get_messages"
  /\ ChatFrame
  /\ emitted' = <<>>
  /\ UNCHANGED <<chatVars, clock, overlaps>>
  /\ \E p \in NewestFirst({m \in messages :
                             /\ m.groupId = reqs[r].group
                             /\ reqs[r].hasBefore => m.createdAt < reqs[r].before},
                          reqs[r].limit) :
       Respond(r, [kind |-> "get_messages", user |-> reqs[r].user,
                   group |-> reqs[r].group, status |-> 200, data |-> TRUE,
                   valid |-> TRUE, body |-> Reverse(p)])

\* ------------------------------------- socket/socketHandler.js: send_message
\* send_message that ends before any await
SendMessageRefused(c, g, text) ==
  /\ sockState[c] = "connected"
  /\ ~HasIdentity(sockUser[c]) \/ g = NoGroup \/ TextStatus(text) # "ok"
  /\ emitted' = <<ErrorTo(c, IF ~HasIdentity(sockUser[c])
                            THEN "Authentication required."
                            ELSE IF g = NoGroup \/ TextStatus(text) = "empty"
                            THEN "groupId and text are required."
                            ELSE "Message must be 2000 characters or less.")>>
  /\ SockFrame
  /\ UNCHANGED <<chatVars, clock, reqs, overlaps, sockVars>>

\* send_message up to await msgRef.set(message)
SendMessageRecv(r, c, g, text) ==
  /\ sockState[c] = "connected"
  /\ HasIdentity(sockUser[c])
  /\ TextStatus(text) = "ok"
  /\ Begin(r)
  /\ msgIds < MaxMsgs
  /\ msgIds' = msgIds + 1
  /\ \E t \in Nows :
       /\ clock' = t
       /\ reqs' = [reqs EXCEPT ![r] =
            [pc |-> "sock_send", conn |-> c, group |-> g, text |-> text,
             message |-> Message(msgIds + 1, g, sockUser[c], text, t)]]
  /\ emitted' = <<>>
  /\ SockFrame
  /\ UNCHANGED <<messages, sockVars>>

\* msgRef.set(message), then io.to(groupId).emit("new_message", message)
SendMessageResume(r) ==
  /\ reqs[r].pc = "sock_send"
  /\ messages' = messages \cup {reqs[r].message}
  /\ emitted' = <<Event("new_message", Live(rooms[reqs[r].group]), reqs[r].group,
                        reqs[r].message.senderId, reqs[r].message)>>
  /\ reqs' = [reqs EXCEPT ![r] = Idle]
  /\ SockFrame
  /\ UNCHANGED <<msgIds, clock, overlaps, sockVars>>

\* msgRef.set(message) is rejected: the catch block emits an error
SendMessageResumeFails(r) ==
  /\ reqs[r].pc = "sock_send"
  /\ emitted' = <<ErrorTo(reqs[r].conn, "Error sending message.")>>
  /\ reqs' = [reqs EXCEPT ![r] = Idle]
  /\ SockFrame
  /\ UNCHANGED <<chatVars, clock, overlaps, sockVars>>

\* ------------------------------------------------------- routes/notes.js
NoNote == [exists |-> FALSE]
\* noteData, as far as the history keeps it
NoteData(g, content, u, t) ==
  [exists |-> TRUE, groupId |-> g, content |-> content, lastEditedBy |-> u,
   lastEditedAt |-> t]
\* the response to GET when no document exists
DefaultNote(g) ==
  [exists |-> TRUE, groupId |-> g, content |-> "", lastEditedBy |-> NoUser,
   lastEditedAt |-> -1]

NotesFrame == UNCHANGED <<groupVars, chatVars, sockVars, taskVars, authVars>>

\* PUT saves of group g that have been accepted and not yet answered
SavesInFlight(g) ==
  {r \in ReqIds : reqs[r].pc \in {"note_read", "note_archive", "note_write"}
                  /\ reqs[r].group = g}

\* mutant: the current note is archived before the request is looked at
PutNoteArchiving(r, u, g, hasContent, content) ==
  /\ FirstIdle(r)
  /\ NotesFrame
  /\ emitted' = <<>>
  /\ noteHistory' = [noteHistory EXCEPT ![g] =
                       Append(@, [content |-> content, savedBy |-> u,
                                  savedAt |-> clock, archivedAt |-> clock])]
  /\ UNCHANGED <<notes, saveLog, clock, overlaps>>
  /\ Respond(r, [kind |-> "put_note", user |-> u, group |-> g,
                 status |-> IF ~hasContent THEN 400
                            ELSE IF ~Exists(groups[g]) THEN 404 ELSE 403,
                 data |-> FALSE, valid |-> hasContent])

\* PUT /api/notes/:groupId: validation and requireGroupMembership
PutNote(r, u, g, hasContent, content) ==
  /\ Begin(r)
  /\ NotesFrame
  /\ emitted' = <<>>
  /\ UNCHANGED <<noteVars, clock>>
  /\ LET st == IF ~hasContent THEN 400 ELSE MembershipStatus(groups[g], u)
     IN IF st # 200
        THEN Respond(r, [kind |-> "put_note", user |-> u, group |-> g,
                         status |-> st, data |-> FALSE, valid |-> hasContent])
        ELSE /\ Len(saveLog[g]) + Cardinality(SavesInFlight(g)) < MaxSaves
             /\ Continue(r, [pc |-> "note_read", user |-> u, group |-> g,
                             content |-> content])

\* mutant: the archive entry takes the content that is being saved
ArchiveEntryOfNew(prevData, content, t) ==
  [content |-> content, savedBy |-> prevData.lastEditedBy,
   savedAt |-> prevData.lastEditedAt, archivedAt |-> t]

\* the noteHistory entry built from the snapshot
ArchiveEntry(prevData, content, t) ==
  [content |-> prevData.content, savedBy |-> prevData.lastEditedBy,
   savedAt |-> prevData.lastEditedAt, archivedAt |-> t]

\* noteRef.get(); with a snapshot the archive entry is built, without one
\* the handler goes on to build noteData
PutNoteRead(r) ==
  /\ reqs[r].pc = "note_read"
  /\ NotesFrame
  /\ emitted' = <<>>
  /\ UNCHANGED <<noteVars, overlaps>>
  /\ \E t \in Nows :
       /\ clock' = t
       /\ IF notes[reqs[r].group].exists
          THEN Continue(r, [pc |-> "note_archive", user |-> reqs[r].user,
                            group |-> reqs[r].group, content |-> reqs[r].content,
                            entry |-> ArchiveEntry(notes[reqs[r].group],
                                                   reqs[r].content, t)])
          ELSE Continue(r, [pc |-> "note_write", user |-> reqs[r].user,
                            group |-> reqs[r].group,
                            noteData |-> NoteData(reqs[r].group, reqs[r].content,
                                                  reqs[r].user, t)])

\* noteRef.collection("noteHistory").add(entry), then noteData is built
PutNoteArchive(r) ==
  /\ reqs[r].pc = "note_archive"
  /\ NotesFrame
  /\ emitted' = <<>>
  /\ noteHistory' = [noteHistory EXCEPT ![reqs[r].group] = Append(@, reqs[r].entry)]
  /\ UNCHANGED <<notes, saveLog, overlaps>>
  /\ \E t \in Nows :
       /\ clock' = t
       /\ Continue(r, [pc |-> "note_write", user |-> reqs[r].user,
                       group |-> reqs[r].group,
                       noteData |-> NoteData(reqs[r].group, reqs[r].content,
                                             reqs[r].user, t)])

\* mutant: set() keeps a document that is already there
WriteNoteIfAbsent(old, noteData) == IF old.exists THEN old ELSE noteData

\* noteRef.set(noteData, {merge: true}): noteData names every field
WriteNote(old, noteData) == noteData

\* the overwrite, io.to(groupId).emit("note_updated"), then 200
PutNoteWrite(r) ==
  /\ reqs[r].pc = "note_write"
  /\ NotesFrame
  /\ notes' = [notes EXCEPT ![reqs[r].group] = WriteNote(@, reqs[r].noteData)]
  /\ saveLog' = [saveLog EXCEPT ![reqs[r].group] = Append(@, reqs[r].noteData)]
  /\ emitted' = <<Event("note_updated", Live(rooms[reqs[r].group]), reqs[r].group,
                        reqs[r].user, reqs[r].noteData.lastEditedAt)>>
  /\ Respond(r, [kind |-> "put_note", user |-> reqs[r].user, group |-> reqs[r].group,
                 status |-> 200, data |-> TRUE, valid |-> TRUE,
                 body |-> reqs[r].noteData])
  /\ UNCHANGED <<noteHistory, clock, overlaps>>

\* GET /api/notes/:groupId: requireGroupMembership
GetNote(r, u, g) ==
  /\ Begin(r)
  /\ NotesFrame
  /\ emitted' = <<>>
  /\ UNCHANGED <<noteVars, clock>>
  /\ IF MembershipStatus(groups[g], u) # 200
     THEN Respond(r, [kind |-> "get_note", user |-> u, group |-> g,
                      status |-> MembershipStatus(groups[g], u), data |-> FALSE,
                      valid |-> TRUE])
     ELSE Continue(r, [pc |-> "get_note", user |-> u, group |-> g])

\* noteSnap = await notes.doc(groupId).get(), then the document or the default
GetNoteRead(r) ==
  /\ reqs[r].pc = "get_note"
  /\ NotesFrame
  /\ emitted' = <<>>
  /\ UNCHANGED <<noteVars, clock, overlaps>>
  /\ Respond(r, [kind |-> "get_note", user |-> reqs[r].user, group |-> reqs[r].group,
                 status |-> 200, data |-> TRUE, valid |-> TRUE,
                 body |-> IF notes[reqs[r].group].exists THEN notes[reqs[r].group]
                          ELSE DefaultNote(reqs[r].group)])

\* the page size of the history query
HistoryLimit == 10

\* mutant: the page comes in the order the entries were added
HistoryPagesOldestFirst(h) ==
  {[i \in 1..(IF Len(h) < HistoryLimit THEN Len(h) ELSE HistoryLimit) |-> i]}

\* the ways to list up to n of the entries left, each time one with the
\* greatest archivedAt of those that remain
RECURSIVE PagesFrom(_, _, _)
PagesFrom(h, left, n) ==
  IF n = 0 \/ left = {}
  THEN {<<>>}
  ELSE UNION {{<<k>> \o p : p \in PagesFrom(h, left \ {k}, n - 1)} :
                k \in {i \in left :
                         \A j \in left : h[j].archivedAt <= h[i].archivedAt}}

\* mutant: the query has no limit
HistoryPagesUnlimited(h) == PagesFrom(h, 1..Len(h), Len(h))

\* orderBy("archivedAt", "desc").limit(10): the answers Firestore may give;
\* entries with equal archivedAt come in the order of their random ids
HistoryPages(h) == PagesFrom(h, 1..Len(h), HistoryLimit)

\* GET /api/notes/:groupId/history: requireGroupMembership
GetHistory(r, u, g) ==
  /\ Begin(r)
  /\ NotesFrame
  /\ emitted' = <<>>
  /\ UNCHANGED <<noteVars, clock>>
  /\ IF MembershipStatus(groups[g], u) # 200
     THEN Respond(r, [kind |-> "get_history", user |-> u, group |-> g,
                      status |-> MembershipStatus(groups[g], u), data |-> FALSE,
                      valid |-> TRUE])
     ELSE Continue(r, [pc |-> "get_history", user |-> u, group |-> g])

\* the history query, then the entries it returned
GetHistoryQuery(r) ==
  /\ reqs[r].pc = "get_history"
  /\ NotesFrame
  /\ emitted' = <<>>
  /\ UNCHANGED <<noteVars, clock, overlaps>>
  /\ \E p \in HistoryPages(noteHistory[reqs[r].group]) :
       Respond(r, [kind |-> "get_history", user |-> reqs[r].user,
                   group |-> reqs[r].group, status |-> 200, data |-> TRUE,
                   valid |-> TRUE,
                   body |-> [i \in DOMAIN p |-> noteHistory[reqs[r].group][p[i]]]])

\* ------------------------------------------------------- routes/tasks.js
\* the longest task title that is accepted
MaxTitleLen == 200
\* titles a client may send: "x", " xx", " " and one of 201 characters
Titles == {Text(0, 1, 0), Text(1, 2, 0), Text(1, 0, 0), Text(0, MaxTitleLen + 1, 0)}
\* body("title").trim().notEmpty().isLength({max: 200})
TitleValid(title) ==
  TextLen(Trim(title)) > 0 /\ TextLen(Trim(title)) <= MaxTitleLen

\* a JSON value sent as "completed": a boolean or a string
JsonValue(type, val) == [type |-> type, val |-> val]
CompletedInputs ==
  {JsonValue("boolean", "true"), JsonValue("boolean", "false"),
   JsonValue("string", "false"), JsonValue("string", "maybe")}
\* body("completed").isBoolean(): the value is checked as a string
IsBoolean(v) == v.val \in {"true", "false", "1", "0"}
\* the truth value JavaScript gives the value in `completed ? a : b`
Truthy(v) == IF v.type = "boolean" THEN v.val = "true" ELSE v.val # ""

NoTask == [exists |-> FALSE]
NoOne == [userId |-> NoUser]
\* the document of a task id; of the fields a client may edit the title is
\* kept, the others (description, assignee, dueDate) are copied the same way
TaskDoc(id) ==
  IF \E t \in tasks : t.taskId = id
  THEN CHOOSE t \in tasks : t.taskId = id
  ELSE NoTask
TaskIdInputs == 1..MaxTasks
TasksFrame == UNCHANGED <<groupVars, chatVars, sockVars, noteVars, authVars>>

\* mutant: the task's group is not compared with the path
TaskStatusAnyGroup(doc, g) == IF ~doc.exists THEN 404 ELSE 200

\* the checks PUT, DELETE and PATCH make on the task snapshot
TaskStatus(doc, g) ==
  IF ~doc.exists THEN 404
  ELSE IF doc.groupId # g THEN 400
  ELSE 200

\* taskRef.update(updates): fails when the document is not there
UpdateTask(id, updates) ==
  {IF t.taskId = id THEN [f \in DOMAIN t |->
                            IF f \in DOMAIN updates THEN updates[f] ELSE t[f]]
   ELSE t : t \in tasks}

\* the task document POST builds; null is written -1 and NoOne
Task(id, g, u, title, t) ==
  [exists |-> TRUE, taskId |-> id, groupId |-> g, title |-> Trim(title),
   completed |-> JsonValue("boolean", "false"), completedAt |-> -1,
   completedBy |-> NoOne, createdBy |-> [userId |-> u], createdAt |-> t,
   updatedAt |-> t]

\* POST /api/tasks/:groupId: validation, requireGroupMembership, the task
\* document, up to await taskRef.set(task)
PostTask(r, u, g, title) ==
  /\ Begin(r)
  /\ TasksFrame
  /\ emitted' = <<>>
  /\ UNCHANGED tasks
  /\ LET st == IF ~TitleValid(title) THEN 400 ELSE MembershipStatus(groups[g], u)
     IN IF st # 200
        THEN /\ Respond(r, [kind |-> "post_task", user |-> u, group |-> g,
                            status |-> st, data |-> FALSE,
                            valid |-> TitleValid(title)])
             /\ UNCHANGED <<taskIds, clock>>
        ELSE \E t \in Nows :
               /\ taskIds < MaxTasks
               /\ taskIds' = taskIds + 1
               /\ clock' = t
               /\ Continue(r, [pc |-> "post_task", user |-> u, group |-> g,
                               task |-> Task(taskIds + 1, g, u, title, t)])

\* taskRef.set(task), then 201
PostTaskWrite(r) ==
  /\ reqs[r].pc = "post_task"
  /\ TasksFrame
  /\ emitted' = <<>>
  /\ tasks' = tasks \cup {reqs[r].task}
  /\ Respond(r, [kind |-> "post_task", user |-> reqs[r].user, group |-> reqs[r].group,
                 status |-> 201, data |-> TRUE, valid |-> TRUE,
                 body |-> reqs[r].task])
  /\ UNCHANGED <<taskIds, clock, overlaps>>

\* the first await of a handler that goes on to read a task:
\* requireGroupMembership
TaskGate(r, kind, u, g, id, valid, input) ==
  /\ Begin(r)
  /\ TasksFrame
  /\ emitted' = <<>>
  /\ UNCHANGED <<taskVars, clock>>
  /\ LET st == IF ~valid THEN 400 ELSE MembershipStatus(groups[g], u)
     IN IF st # 200
        THEN Respond(r, [kind |-> kind, user |-> u, group |-> g, status |-> st,
                         data |-> FALSE, valid |-> valid, task |-> id])
        ELSE Continue(r, [pc |-> kind, user |-> u, group |-> g, task |-> id,
                          input |-> input])

\* the answer of a handler that stops at the task snapshot
TaskRefused(r, st) ==
  Respond(r, [kind |-> reqs[r].pc, user |-> reqs[r].user, group |-> reqs[r].group,
              status |-> st, data |-> FALSE, valid |-> TRUE,
              task |-> reqs[r].task])

\* the answer after the write: update() fails on a missing document, and
\* the document read back is sent
TaskWritten(r, kind, updates) ==
  /\ TasksFrame
  /\ emitted' = <<>>
  /\ UNCHANGED <<taskIds, clock, overlaps>>
  /\ IF TaskDoc(reqs[r].task).exists
     THEN /\ tasks' = UpdateTask(reqs[r].task, updates)
          /\ Continue(r, [pc |-> kind, user |-> reqs[r].user,
                          group |-> reqs[r].group, task |-> reqs[r].task])
     ELSE /\ UNCHANGED tasks
          /\ Respond(r, [kind |-> kind, user |-> reqs[r].user,
                         group |-> reqs[r].group, status |-> 500, data |-> FALSE,
                         valid |-> TRUE, task |-> reqs[r].task])

\* (await taskRef.get()).data(), then 200 with what was read
TaskReadBack(r, kind) ==
  /\ TasksFrame
  /\ emitted' = <<>>
  /\ UNCHANGED <<taskVars, clock, overlaps>>
  /\ Respond(r, [kind |-> kind, user |-> reqs[r].user, group |-> reqs[r].group,
                 status |-> 200, data |-> TaskDoc(reqs[r].task).exists,
                 valid |-> TRUE, task |-> reqs[r].task,
                 body |-> TaskDoc(reqs[r].task)])

\* PUT /api/tasks/:groupId/:taskId: validation of the title when one is
\* sent, requireGroupMembership
PutTask(r, u, g, id, hasTitle, title) ==
  TaskGate(r, "put_task", u, g, id, hasTitle => TitleValid(title),
           [hasTitle |-> hasTitle, title |-> title])

\* taskRef.get(), the checks, and the partial update object
PutTaskRead(r) ==
  /\ reqs[r].pc = "put_task"
  /\ TasksFrame
  /\ emitted' = <<>>
  /\ UNCHANGED <<taskVars, overlaps>>
  /\ IF TaskStatus(TaskDoc(reqs[r].task), reqs[r].group) # 200
     THEN /\ TaskRefused(r, TaskStatus(TaskDoc(reqs[r].task), reqs[r].group))
          /\ UNCHANGED clock
     ELSE \E t \in Nows :
            /\ clock' = t
            /\ Continue(r, [pc |-> "put_task_write", user |-> reqs[r].user,
                            group |-> reqs[r].group, task |-> reqs[r].task,
                            updates |-> IF reqs[r].input.hasTitle
                                        THEN [updatedAt |-> t,
                                              title |-> Trim(reqs[r].input.title)]
                                        ELSE [updatedAt |-> t]])

\* taskRef.update(updates)
PutTaskWrite(r) ==
  /\ reqs[r].pc = "put_task_write"
  /\ TaskWritten(r, "put_task_back", reqs[r].updates)

PutTaskBack(r) ==
  /\ reqs[r].pc = "put_task_back"
  /\ TaskReadBack(r, "put_task")

\* PATCH /api/tasks/:groupId/:taskId/complete: validation,
\* requireGroupMembership
CompleteTask(r, u, g, id, completed) ==
  TaskGate(r, "complete_task", u, g, id, IsBoolean(completed), completed)

\* taskRef.get(), the checks, and the completion fields
CompleteTaskRead(r) ==
  /\ reqs[r].pc = "complete_task"
  /\ TasksFrame
  /\ emitted' = <<>>
  /\ UNCHANGED <<taskVars, overlaps>>
  /\ IF TaskStatus(TaskDoc(reqs[r].task), reqs[r].group) # 200
     THEN /\ TaskRefused(r, TaskStatus(TaskDoc(reqs[r].task), reqs[r].group))
          /\ UNCHANGED clock
     ELSE \E t \in Nows :
            /\ clock' = t
            /\ Continue(r, [pc |-> "complete_task_write", user |-> reqs[r].user,
                            group |-> reqs[r].group, task |-> reqs[r].task,
                            updates |->
                              [completed |-> reqs[r].input,
                               completedAt |-> IF Truthy(reqs[r].input) THEN t ELSE -1,
                               completedBy |-> IF Truthy(reqs[r].input)
                                               THEN [userId |-> reqs[r].user]
                                               ELSE NoOne,
                               updatedAt |-> t]])

CompleteTaskWrite(r) ==
  /\ reqs[r].pc = "complete_task_write"
  /\ TaskWritten(r, "complete_task_back", reqs[r].updates)

CompleteTaskBack(r) ==
  /\ reqs[r].pc = "complete_task_back"
  /\ TaskReadBack(r, "complete_task")

\* DELETE /api/tasks/:groupId/:taskId: requireGroupMembership
DeleteTask(r, u, g, id) == TaskGate(r, "delete_task", u, g, id, TRUE, <<>>)

\* taskRef.get() and the checks
DeleteTaskRead(r) ==
  /\ reqs[r].pc = "delete_task"
  /\ TasksFrame
  /\ emitted' = <<>>
  /\ UNCHANGED <<taskVars, clock, overlaps>>
  /\ IF TaskStatus(TaskDoc(reqs[r].task), reqs[r].group) # 200
     THEN TaskRefused(r, TaskStatus(TaskDoc(reqs[r].task), reqs[r].group))
     ELSE Continue(r, [pc |-> "delete_task_write", user |-> reqs[r].user,
                       group |-> reqs[r].group, task |-> reqs[r].task])

\* taskRef.delete(), then 200
DeleteTaskWrite(r) ==
  /\ reqs[r].pc = "delete_task_write"
  /\ TasksFrame
  /\ emitted' = <<>>
  /\ tasks' = {t \in tasks : t.taskId # reqs[r].task}
  /\ Respond(r, [kind |-> "delete_task", user |-> reqs[r].user,
                 group |-> reqs[r].group, status |-> 200, data |-> FALSE,
                 valid |-> TRUE, task |-> reqs[r].task])
  /\ UNCHANGED <<taskIds, clock, overlaps>>

\* GET /api/tasks/:groupId: requireGroupMembership
GetTasks(r, u, g) == TaskGate(r, "get_tasks", u, g, 0, TRUE, <<>>)

\* where("groupId", "==", g).orderBy("createdAt", "asc"): the answers
\* Firestore may give; tasks of equal createdAt come in the order of their ids
TaskLists(S) ==
  {p \in [1..Cardinality(S) -> S] :
     /\ \A i, j \in 1..Cardinality(S) : i # j => p[i] # p[j]
     /\ \A i, j \in 1..Cardinality(S) : i < j => p[i].createdAt <= p[j].createdAt}

\* the query, then the tasks it returned
GetTasksQuery(r) ==
  /\ reqs[r].pc = "get_tasks"
  /\ TasksFrame
  /\ emitted' = <<>>
  /\ UNCHANGED <<taskVars, clock, overlaps>>
  /\ \E p \in TaskLists({t \in tasks : t.groupId = reqs[r].group}) :
       Respond(r, [kind |-> "get_tasks", user |-> reqs[r].user,
                   group |-> reqs[r].group, status |-> 200, data |-> TRUE,
                   valid |-> TRUE, body |-> p])

\* -------------------------------------------------------- routes/auth.js
\* String.prototype.toLowerCase on a string given as a sequence of characters
LowerChar(ch) ==
  CASE ch = "A" -> "a"
    [] ch = "B" -> "b"
    [] OTHER -> ch
\* mutant: the email is compared and stored as it was typed
KeepCase(s) == s
ToLowerCase(s) == [i \in 1..Len(s) |-> LowerChar(s[i])]

\* the local parts of the emails a client may send ("@x.com" is left out)
Emails == {<<"a">>, <<"A">>}
Passwords == {"secret1", "secret2"}
\* the Google accounts whose ID token verifyIdToken accepts: payload.sub and
\* payload.email
GoogleAccounts == {[sub |-> "s1", email |-> <<"A">>],
                   [sub |-> "s2", email |-> <<"b">>]}

\* document ids: newUserRef.id of doc(), and `google_${googleId}`
AutoId(n) == [kind |-> "auto", n |-> n, sub |-> ""]
GoogleDocId(sub) == [kind |-> "google", n |-> 0, sub |-> sub]

\* bcrypt.hash(password, 12); bcrypt.compare is the comparison with it
Hash(password) == [alg |-> "bcrypt", of |-> password]
NoHash == [alg |-> "none", of |-> ""]

\* expiresIn "7d", in milliseconds
TokenLifetime == 604800000
\* generateToken(user): jwt.sign of {userId, email, displayName} (the display
\* name is left out of the model) with JWT_SECRET
GenerateToken(user, now) ==
  [payload |-> [userId |-> user.userId, email |-> user.email],
   iat |-> now, exp |-> now + TokenLifetime, key |-> "JWT_SECRET"]
\* mutant: the expiry of the token is not looked at
VerifyTokenNoExpiry(token, now) ==
  IF token.key # "JWT_SECRET" THEN [status |-> 401, reason |-> "invalid"]
  ELSE [status |-> 200, user |-> token.payload]

\* jwt.verify(token, JWT_SECRET) in verifyToken: req.user, or the 401
VerifyToken(token, now) ==
  IF token.key # "JWT_SECRET" THEN [status |-> 401, reason |-> "invalid"]
  ELSE IF now >= token.exp THEN [status |-> 401, reason |-> "expired"]
  ELSE [status |-> 200, user |-> token.payload]

\* an Authorization header: its first seven characters (empty when the header
\* is absent) and what split(" ")[1] makes of it; NoToken is the empty string
NoToken ==
  [payload |-> [userId |-> NoUser, email |-> <<>>], iat |-> 0, exp |-> 0, key |-> ""]
Header(scheme, token) == [scheme |-> scheme, token |-> token]
NoHeader == Header("", NoToken)

\* middleware/auth.js verifyToken: the 401 it sends, or req.user
AuthMiddleware(header, now) ==
  IF header.scheme # "Bearer "
  THEN [status |-> 401, message |-> "Access denied. No token provided."]
  ELSE IF header.token = NoToken
  THEN [status |-> 401, message |-> "Access denied. Token is missing."]
  ELSE LET v == VerifyToken(header.token, now)
       IN IF v.status = 200 THEN v
          ELSE IF v.reason = "expired"
          THEN [status |-> 401, message |-> "Token has expired. Please log in again."]
          ELSE [status |-> 401, message |-> "Invalid token. Please log in again."]

\* where("email", "==", x).limit(1).get(): the documents it may return
UsersByEmail(x) == {d \in users : d.email = x}

AuthFrame ==
  /\ UNCHANGED <<groupVars, chatVars, sockVars, noteVars, taskVars, sentAuth,
                 chatView>>
  /\ emitted' = <<>>

\* registrations that have passed the duplicate check and not yet written
Registering == {r \in ReqIds : reqs[r].pc = "register_write"}

\* POST /api/auth/register up to the write: validation, the duplicate query
\* and the password hash
Register(r, valid, email, password) ==
  /\ Begin(r)
  /\ AuthFrame
  /\ UNCHANGED <<authVars, clock>>
  /\ IF ~valid
     THEN Respond(r, [kind |-> "register", status |-> 400, valid |-> FALSE,
                      email |-> email])
     ELSE IF UsersByEmail(ToLowerCase(email)) # {}
     THEN Respond(r, [kind |-> "register", status |-> 409, valid |-> TRUE,
                      email |-> email])
     ELSE /\ userIds + Cardinality(Registering) < MaxUsers
          /\ Continue(r, [pc |-> "register_write", email |-> email,
                          passwordHash |-> Hash(password)])

\* newUserRef = doc(); newUserRef.set(newUser); the token; 201
RegisterWrite(r) ==
  /\ reqs[r].pc = "register_write"
  /\ AuthFrame
  /\ \E t \in Nows :
       LET newUser == [userId |-> AutoId(userIds + 1),
                       email |-> ToLowerCase(reqs[r].email),
                       passwordHash |-> reqs[r].passwordHash,
                       provider |-> "email", updatedAt |-> t]
       IN /\ clock' = t
          /\ userIds' = userIds + 1
          /\ users' = users \cup {newUser}
          /\ Respond(r, [kind |-> "register", status |-> 201, valid |-> TRUE,
                         email |-> reqs[r].email,
                         token |-> GenerateToken(newUser, t),
                         user |-> [userId |-> newUser.userId,
                                   email |-> newUser.email,
                                   provider |-> newUser.provider]])
  /\ UNCHANGED overlaps

\* POST /api/auth/login: validation, the query, bcrypt.compare, the token
Login(r, valid, email, password) ==
  /\ Begin(r)
  /\ AuthFrame
  /\ UNCHANGED <<authVars, clock>>
  /\ IF ~valid
     THEN Respond(r, [kind |-> "login", status |-> 400, valid |-> FALSE,
                      email |-> email])
     ELSE IF UsersByEmail(ToLowerCase(email)) = {}
     THEN Respond(r, [kind |-> "login", status |-> 401, valid |-> TRUE,
                      email |-> email,
                      message |-> "Invalid email or password."])
     ELSE \E userData \in UsersByEmail(ToLowerCase(email)) :
            IF userData.passwordHash = NoHash
            THEN Respond(r, [kind |-> "login", status |-> 401, valid |-> TRUE,
                             email |-> email,
                             message |-> "This account was created with Google. Please use Google login."])
            ELSE IF userData.passwordHash # Hash(password)
            THEN Respond(r, [kind |-> "login", status |-> 401, valid |-> TRUE,
                             email |-> email,
                             message |-> "Invalid email or password."])
            ELSE Respond(r, [kind |-> "login", status |-> 200, valid |-> TRUE,
                             email |-> email,
                             message |-> "Login successful",
                             token |-> GenerateToken(userData, clock),
                             user |-> [userId |-> userData.userId,
                                       email |-> userData.email,
                                       provider |-> userData.provider]])

\* POST /api/auth/google up to the write: validation, verifyIdToken (a token
\* Google does not accept is answered 401) and userRef.get()
GoogleLogin(r, valid, accepted, account) ==
  /\ Begin(r)
  /\ AuthFrame
  /\ UNCHANGED authVars
  /\ IF ~valid \/ ~accepted
     THEN /\ Respond(r, [kind |-> "google", status |-> IF valid THEN 401 ELSE 400,
                         valid |-> valid, email |-> account.email])
          /\ UNCHANGED clock
     ELSE LET id == GoogleDocId(account.sub)
              snap == {d \in users : d.userId = id}
          IN \E t \in Nows :
               /\ clock' = t
               /\ Continue(r, [pc |-> "google_write", id |-> id,
                               exists |-> snap # {},
                               updatedAt |-> t,
                               userData |->
                                 IF snap # {} THEN CHOOSE d \in snap : TRUE
                                 ELSE [userId |-> id,
                                       email |-> ToLowerCase(account.email),
                                       passwordHash |-> NoHash,
                                       provider |-> "google",
                                       updatedAt |-> t]])

\* userRef.set(userData) for a first login, userRef.update({displayName,
\* photoURL, updatedAt}) for a returning user; then the token and 200
GoogleWrite(r) ==
  /\ reqs[r].pc = "google_write"
  /\ AuthFrame
  /\ users' = {d \in users : d.userId # reqs[r].id}
                \cup (IF reqs[r].exists
                      THEN {[d EXCEPT !.updatedAt = reqs[r].updatedAt] :
                              d \in {e \in users : e.userId = reqs[r].id}}
                      ELSE {reqs[r].userData})
  /\ Respond(r, [kind |-> "google", status |-> 200, valid |-> TRUE,
                 email |-> reqs[r].userData.email,
                 token |-> GenerateToken(reqs[r].userData, clock),
                 user |-> [userId |-> reqs[r].userData.userId,
                           email |-> reqs[r].userData.email,
                           provider |-> reqs[r].userData.provider]])
  /\ UNCHANGED <<userIds, clock, overlaps>>

\* --------------------------------------------- components/Chat/Chat.jsx
\* the Chat component of u1's browser, whose socket is c3, open on g1
ViewFrame ==
  UNCHANGED <<groupVars, chatVars, sockVars, noteVars, taskVars, users, userIds,
              sentAuth, clock, reqs, resp, emitted, overlaps>>

\* the new_message events of the last step that go to c3 and are not yet on
\* their way
NewEvents ==
  {i \in 1..Len(emitted) :
     /\ emitted[i].ev = "new_message"
     /\ "c3" \in emitted[i].to
     /\ emitted[i].arg.messageId \notin chatView.seen}
\* the response to loadHistory's request was sent in the last step
HistoryAnswered ==
  /\ chatView.phase = "new"
  /\ resp.status = 200
  /\ resp.kind = "get_messages"

\* the response to chatAPI.getMessages(groupId) leaves the server
HistorySent ==
  /\ HistoryAnswered
  /\ chatView' = [chatView EXCEPT !.phase = "sent", !.history = resp.body]
  /\ ViewFrame

\* a new_message packet for c3 leaves the server
EventSent ==
  /\ \E i \in NewEvents :
       chatView' = [chatView EXCEPT !.events = Append(@, emitted[i].arg),
                                    !.seen = @ \cup {emitted[i].arg.messageId}]
  /\ ViewFrame

\* setMessages(response.data.messages || [])
SetMessages(prev, history) == history

\* loadHistory resumes with the response
HistoryReceived ==
  /\ chatView.phase = "sent"
  /\ chatView' = [chatView EXCEPT
                    !.phase = "loaded",
                    !.messages = SetMessages(@, chatView.history)]
  /\ ViewFrame

\* the onMessage callback: the message is appended unless its id is shown
EventReceived ==
  /\ chatView.events # <<>>
  /\ LET msg == Head(chatView.events) IN
     chatView' = [chatView EXCEPT
                    !.events = Tail(@),
                    !.got = @ \cup {msg.messageId},
                    !.messages =
                       IF \E i \in 1..Len(@) : @[i].messageId = msg.messageId
                       THEN @ ELSE Append(@, msg)]
  /\ ViewFrame

\* ------------------------------------------------------- specifications
\* a fresh database; doc() hands out one group id in a run
Init ==
  /\ groups = [g \in GroupIds |-> NoDoc]
  /\ userGroups = [u \in Users |-> {}]
  /\ clock = 0
  /\ reqs = [r \in ReqIds |-> Idle]
  /\ resp = NoResp
  /\ freeIds = InitFreeIds
  /\ overlaps = 0
  /\ messages = {}
  /\ msgIds = 0
  /\ sockState = [c \in Conns |-> "new"]
  /\ sockUser = [c \in Conns |-> NoUser]
  /\ joinedGroups = [c \in Conns |-> <<>>]
  /\ rooms = [g \in GroupIds |-> {}]
  /\ onlineUsers = EmptyMap
  /\ emitted = <<>>
  /\ notes = [g \in GroupIds |-> NoNote]
  /\ noteHistory = [g \in GroupIds |-> <<>>]
  /\ saveLog = [g \in GroupIds |-> <<>>]
  /\ tasks = {}
  /\ taskIds = 0
  /\ users = {}
  /\ userIds = 0
  /\ sentAuth = [c \in Conns |-> NoUser]
  /\ chatView = [phase |-> "new", history |-> <<>>, events |-> <<>>, seen |-> {},
                 got |-> {}, messages |-> <<>>]

GroupsStart ==
  \E r \in ReqIds, u \in Users, g \in GroupIds :
    \/ \E valid \in BOOLEAN, raw \in RawCodes : CreateGroup(r, u, valid, raw)
    \/ GetGroup(r, u, g)
    \/ GetMembers(r, u, g)
    \/ \E code \in CodeInputs \cup {<<>>} : JoinRead(r, u, g, code)
    \/ LeaveRead(r, u, g)

GroupsStep ==
  \E r \in ReqIds :
    \/ CreateGroupUser(r)
    \/ JoinUpdate(r)
    \/ JoinUser(r)
    \/ LeaveWrite(r)
    \/ LeaveUser(r)

\* a database that create and join requests have filled: u1 and u2 share g1,
\* u2 and u3 share g2
World ==
  [g \in GroupIds |->
     IF g = "g1"
     THEN [exists |-> TRUE, inviteCode |-> <<"A", "3">>,
           members |-> <<[userId |-> "u1", role |-> "admin", joinedAt |-> 0],
                         [userId |-> "u2", role |-> "member", joinedAt |-> 0]>>]
     ELSE [exists |-> TRUE, inviteCode |-> <<"B", "3">>,
           members |-> <<[userId |-> "u2", role |-> "admin", joinedAt |-> 0],
                         [userId |-> "u3", role |-> "member", joinedAt |-> 0]>>]]

\* the collections besides groups and users: empty, or holding what
\* earlier requests have written (a message of u2 in g2 and one of u1 in g1,
\* a task of u2 in g2, and the note of g1 saved by u1 and then by u2)
NoData ==
  [messages |-> {}, msgIds |-> 0, tasks |-> {}, taskIds |-> 0,
   notes |-> [g \in GroupIds |-> NoNote],
   noteHistory |-> [g \in GroupIds |-> <<>>],
   saveLog |-> [g \in GroupIds |-> <<>>]]
SeedData ==
  [messages |-> {Message(1, "g2", "u2", Text(0, 1, 0), 0),
                 Message(2, "g1", "u1", Text(0, 1, 0), 0)},
   msgIds |-> 2,
   tasks |-> {Task(1, "g2", "u2", Text(0, 1, 0), 0)},
   taskIds |-> 1,
   notes |-> [g \in GroupIds |->
                IF g = "g1" THEN NoteData("g1", "B", "u2", 0) ELSE NoNote],
   noteHistory |-> [g \in GroupIds |->
                      IF g = "g1"
                      THEN <<ArchiveEntry(NoteData("g1", "A", "u1", 0), "B", 0)>>
                      ELSE <<>>],
   saveLog |-> [g \in GroupIds |->
                  IF g = "g1"
                  THEN <<NoteData("g1", "A", "u1", 0), NoteData("g1", "B", "u2", 0)>>
                  ELSE <<>>]]

\* the note of g1 after eleven saves made before the first clock value, by
\* u1 and u2 in turn: ten archived versions and the current one
OldSave(i) ==
  NoteData("g1", IF i % 2 = 1 THEN "A" ELSE "B", IF i % 2 = 1 THEN "u1" ELSE "u2",
           i - 13)
OldData ==
  [NoData EXCEPT
     !.notes = [g \in GroupIds |-> IF g = "g1" THEN OldSave(11) ELSE NoNote],
     !.noteHistory =
        [g \in GroupIds |->
           IF g = "g1"
           THEN [i \in 1..10 |->
                   ArchiveEntry(OldSave(i), OldSave(i + 1).content, i - 12)]
           ELSE <<>>]]

InitOver(w, d) ==
  /\ groups = w
  /\ userGroups = [u \in Users |-> {g \in GroupIds : IsMember(w[g].members, u)}]
  /\ clock = 0
  /\ reqs = [r \in ReqIds |-> Idle]
  /\ resp = NoResp
  /\ freeIds = {}
  /\ overlaps = 0
  /\ messages = d.messages
  /\ msgIds = d.msgIds
  /\ sockState = [c \in Conns |-> "new"]
  /\ sockUser = [c \in Conns |-> NoUser]
  /\ joinedGroups = [c \in Conns |-> <<>>]
  /\ rooms = [g \in GroupIds |-> {}]
  /\ onlineUsers = EmptyMap
  /\ emitted = <<>>
  /\ notes = d.notes
  /\ noteHistory = d.noteHistory
  /\ saveLog = d.saveLog
  /\ tasks = d.tasks
  /\ taskIds = d.taskIds
  /\ users = {}
  /\ userIds = 0
  /\ sentAuth = [c \in Conns |-> NoUser]
  /\ chatView = [phase |-> "new", history |-> <<>>, events |-> <<>>, seen |-> {},
                 got |-> {}, messages |-> <<>>]

InitWorld == InitOver(World, NoData)
\* the database with data in it
InitSeeded == InitOver(World, SeedData)
\* the same, with the second group there or deleted by its last member
InitGate == \E w \in {World, [World EXCEPT !["g2"] = NoDoc]} : InitOver(w, SeedData)

\* the room and presence layer over a database that does not change; a
\* join_group is sent when no other join_group is awaiting its read, while
\* the synchronous events and disconnects arrive at any time
NextPresence ==
  \/ \E c \in Conns : (\E token \in HandshakeTokens(c) : Connect(c, token))
                        \/ Disconnect(c)
  \/ \E c \in Conns, g \in GroupIds \cup {NoGroup} : JoinGroupRefused(c, g)
  \/ Quiet /\ \E r \in ReqIds, c \in Conns, g \in GroupIds : JoinGroupRecv(r, c, g)
  \/ \E r \in ReqIds : JoinGroupResume(r)
  \/ \E c \in Conns, g \in GroupIds : LeaveGroup(c, g)
SpecPresence == InitWorld /\ [][NextPresence]_vars

\* u1 and u3 ask to join and to leave the groups, one request after the other
NextJoin ==
  \/ Quiet /\ \E r \in ReqIds, u \in {"u1", "u3"}, g \in GroupIds :
       \/ \E code \in TypedCodes : JoinRead(r, u, g, code)
       \/ LeaveRead(r, u, g)
  \/ \E r \in ReqIds : JoinUpdate(r) \/ JoinUser(r) \/ LeaveWrite(r) \/ LeaveUser(r)
SpecJoin == InitWorld /\ [][NextJoin]_vars

\* u3 asks to join g1, and u1 to join g2, with requests that overlap, and
\* they leave again
NextRejoin ==
  \/ \E r \in ReqIds :
       \/ \E code \in {<<"a", "3">>, <<"b", "3">>} :
            JoinRead(r, "u3", "g1", code) \/ JoinRead(r, "u1", "g2", code)
       \/ Quiet /\ (LeaveRead(r, "u3", "g1") \/ LeaveRead(r, "u1", "g2"))
  \/ \E r \in ReqIds : JoinUpdate(r) \/ JoinUser(r) \/ LeaveWrite(r) \/ LeaveUser(r)
SpecRejoin == InitWorld /\ [][NextRejoin]_vars

\* the shared note of g1, saved by its members u1 and u2; u3 is no member
NotesStart ==
  \E r \in ReqIds, u \in Users :
    \/ \E hasContent \in BOOLEAN, content \in Contents :
         PutNote(r, u, "g1", hasContent, content)
    \/ GetNote(r, u, "g1")
    \/ GetHistory(r, u, "g1")
NotesStep ==
  \E r \in ReqIds :
    \/ PutNoteRead(r)
    \/ PutNoteArchive(r)
    \/ PutNoteWrite(r)
    \/ GetNoteRead(r)
    \/ GetHistoryQuery(r)
\* clients that wait for each response before the next request
NextNotesSeq == (Quiet /\ NotesStart) \/ NotesStep
SpecNotesSeq == InitWorld /\ [][NextNotesSeq]_vars
\* the note of g1 with ten archived versions: u1 saves and reads the history
NextHistory ==
  \/ Quiet /\ \E r \in ReqIds :
       \/ PutNote(r, "u1", "g1", TRUE, "A")
       \/ \E u \in {"u1", "u3"} : GetHistory(r, u, "g1")
  \/ \E r \in ReqIds :
       \/ PutNoteRead(r)
       \/ PutNoteArchive(r)
       \/ PutNoteWrite(r)
       \/ GetHistoryQuery(r)
SpecHistory == InitOver(World, OldData) /\ [][NextHistory]_vars

\* the two members of g1, whose saves overlap
NextNotes ==
  \/ \E r \in ReqIds, u \in {"u1", "u2"}, content \in Contents :
       PutNote(r, u, "g1", TRUE, content)
  \/ \E r \in ReqIds : PutNoteRead(r)
  \/ \E r \in ReqIds : PutNoteArchive(r)
  \/ \E r \in ReqIds : PutNoteWrite(r)
SpecNotes == InitWorld /\ [][NextNotes]_vars

\* who stands outside which group: u3 outside g1, u1 outside g2
Outsiders == {<<"u3", "g1">>, <<"u1", "g2">>}

\* every REST endpoint that is addressed to one group, called one after the
\* other: by an outsider, and the reading and deleting ones by anybody
GateStart ==
  \/ \E r \in ReqIds, o \in Outsiders :
       \/ \E text \in Texts : PostMessage(r, o[1], o[2], text)
       \/ \E hasContent \in BOOLEAN : PutNote(r, o[1], o[2], hasContent, "A")
       \/ \E title \in Titles : PostTask(r, o[1], o[2], title)
       \/ \E hasTitle \in BOOLEAN, title \in Titles :
            PutTask(r, o[1], o[2], 1, hasTitle, title)
       \/ \E completed \in CompletedInputs :
            CompleteTask(r, o[1], o[2], 1, completed)
  \/ \E r \in ReqIds, u \in Users, g \in GroupIds :
       \/ \E id \in MessageIdInputs : DeleteMessage(r, u, g, id)
       \/ \E hasLimit \in BOOLEAN, limit \in {0, 1} :
            GetMessages(r, u, g, hasLimit, limit, FALSE, 0)
       \/ GetNote(r, u, g)
       \/ GetHistory(r, u, g)
       \/ \E id \in TaskIdInputs : DeleteTask(r, u, g, id)
       \/ GetTasks(r, u, g)
       \/ GetGroup(r, u, g)
       \/ GetMembers(r, u, g)
GateStep ==
  \E r \in ReqIds :
    \/ DeleteMessageRead(r)
    \/ DeleteMessageWrite(r)
    \/ GetMessagesQuery(r)
    \/ GetNoteRead(r)
    \/ GetHistoryQuery(r)
    \/ DeleteTaskRead(r)
    \/ DeleteTaskWrite(r)
    \/ GetTasksQuery(r)
NextGate == (Quiet /\ GateStart) \/ GateStep
SpecGate == InitGate /\ [][NextGate]_vars

\* the requests on one task or one message, by u2 (in both groups) and u1
\* (in g1 only), one after the other
CrossStart ==
  \E r \in ReqIds, u \in {"u1", "u2"}, g \in GroupIds :
    \/ \E id \in TaskIdInputs, hasTitle \in BOOLEAN :
         PutTask(r, u, g, id, hasTitle, Text(1, 2, 0))
    \/ \E id \in TaskIdInputs, completed \in CompletedInputs :
         CompleteTask(r, u, g, id, completed)
    \/ \E id \in TaskIdInputs : DeleteTask(r, u, g, id)
    \/ \E id \in MessageIdInputs : DeleteMessage(r, u, g, id)
CrossStep ==
  \E r \in ReqIds :
    \/ PutTaskRead(r)
    \/ PutTaskWrite(r)
    \/ PutTaskBack(r)
    \/ CompleteTaskRead(r)
    \/ CompleteTaskWrite(r)
    \/ CompleteTaskBack(r)
    \/ DeleteTaskRead(r)
    \/ DeleteTaskWrite(r)
    \/ DeleteMessageRead(r)
    \/ DeleteMessageWrite(r)
NextCross == (Quiet /\ CrossStart) \/ CrossStep
SpecCross == InitSeeded /\ [][NextCross]_vars

\* the two posting paths, used by u2's tab c1 and u1's browser c3; a post is
\* sent when no other post is awaiting its write
ChatConns == {"c1", "c3"}
ChatStart ==
  \/ \E r \in ReqIds, c \in ChatConns, g \in GroupIds, text \in Texts :
       SendMessageRecv(r, c, g, text)
  \/ \E r \in ReqIds, u \in Users, g \in GroupIds, text \in Texts :
       PostMessage(r, u, g, text)
NextChat ==
  \/ \E c \in ChatConns : \E token \in HandshakeTokens(c) : Connect(c, token)
  \/ \E c \in ChatConns, g \in GroupIds \cup {NoGroup}, text \in Texts :
       SendMessageRefused(c, g, text)
  \/ Quiet /\ ChatStart
  \/ \E r \in ReqIds : SendMessageResume(r)
  \/ \E r \in ReqIds : PostMessageWrite(r)
SpecChat == InitWorld /\ [][NextChat]_vars

\* c1 (u2) and c3 (u1, or nobody) join rooms and send messages, one event
\* being handled at a time
GuestConns == {"c1", "c3"}
NextGuest ==
  \/ \E c \in GuestConns : \E token \in HandshakeTokens(c) : Connect(c, token)
  \/ \E c \in GuestConns, g \in GroupIds : JoinGroupRefused(c, g)
  \/ \E c \in GuestConns, g \in GroupIds : SendMessageRefused(c, g, Text(0, 1, 0))
  \/ Quiet /\ \E r \in ReqIds, c \in GuestConns, g \in GroupIds :
                 \/ JoinGroupRecv(r, c, g)
                 \/ SendMessageRecv(r, c, g, Text(0, 1, 0))
  \/ \E r \in ReqIds : JoinGroupResume(r)
  \/ \E r \in ReqIds : SendMessageResume(r)
SpecGuest == InitWorld /\ [][NextGuest]_vars

\* the same, the client of c3 also sending its JWT in an authenticate event
NextLateAuth ==
  \/ NextGuest
  \/ Authenticate("c3", "u1")
SpecLateAuth == InitWorld /\ [][NextLateAuth]_vars

\* c1 (u2) and c3 (u1, or nobody) join rooms while u1 and u2 leave their
\* groups over REST, so that the membership can change between a join_group
\* and its read
NextAdmit ==
  \/ \E c \in GuestConns : \E token \in HandshakeTokens(c) : Connect(c, token)
  \/ \E r \in ReqIds, c \in GuestConns, g \in GroupIds : JoinGroupRecv(r, c, g)
  \/ \E r \in ReqIds : JoinGroupResume(r)
  \/ \E r \in ReqIds, u \in {"u1", "u2"}, g \in GroupIds : LeaveRead(r, u, g)
  \/ \E r \in ReqIds : LeaveWrite(r) \/ LeaveUser(r)
SpecAdmit == InitWorld /\ [][NextAdmit]_vars

\* the auth routes over a database without users; requests overlap, and
\* every registration chooses the same password
NextAuth ==
  \/ \E r \in ReqIds, valid \in BOOLEAN, email \in Emails :
       Register(r, valid, email, "secret1")
  \/ \E r \in ReqIds, valid \in BOOLEAN, email \in Emails, password \in Passwords :
       Login(r, valid, email, password)
  \/ \E r \in ReqIds, valid, accepted \in BOOLEAN, account \in GoogleAccounts :
       GoogleLogin(r, valid, accepted, account)
  \/ \E r \in ReqIds : RegisterWrite(r) \/ GoogleWrite(r)
SpecAuth == Init /\ [][NextAuth]_vars

\* texts at the limits: "x", " x ", " ", 2000 characters between two blanks,
\* and 2001 characters
EdgeTexts ==
  {Text(0, 1, 0), Text(1, 1, 1), Text(1, 0, 1), Text(1, MaxTextLen, 1),
   Text(0, MaxTextLen + 1, 0)}
\* u1 posts to g1 on both paths, one message after the other
PostStart ==
  \E r \in ReqIds, text \in EdgeTexts :
    \/ SendMessageRecv(r, "c3", "g1", text)
    \/ PostMessage(r, "u1", "g1", text)
NextPost ==
  \/ \E token \in HandshakeTokens("c3") : Connect("c3", token)
  \/ \E g \in {"g1", NoGroup}, text \in EdgeTexts : SendMessageRefused("c3", g, text)
  \/ Quiet /\ PostStart
  \/ \E r \in ReqIds : SendMessageResume(r)
  \/ \E r \in ReqIds : PostMessageWrite(r)
SpecPost == InitWorld /\ [][NextPost]_vars

\* u1 is in room g1 on c3 and posts to g1 on both paths; the store may
\* reject the write of a message
NextDeliver ==
  \/ \E token \in HandshakeTokens("c3") : Connect("c3", token)
  \/ Quiet /\ \E r \in ReqIds :
                 \/ JoinGroupRecv(r, "c3", "g1")
                 \/ SendMessageRecv(r, "c3", "g1", Text(0, 1, 0))
                 \/ PostMessage(r, "u1", "g1", Text(0, 1, 0))
  \/ \E r \in ReqIds : JoinGroupResume(r)
  \/ \E r \in ReqIds : SendMessageResume(r) \/ SendMessageResumeFails(r)
  \/ \E r \in ReqIds : PostMessageWrite(r) \/ PostMessageWriteFails(r)
SpecDeliver == InitWorld /\ [][NextDeliver]_vars

\* the catch block of GET messages when query.get() is rejected
GetMessagesQueryFails(r) ==
  /\ reqs[r].pc = "get_messages"
  /\ emitted' = <<>>
  /\ Respond(r, [kind |-> "get_messages", user |-> reqs[r].user,
                 group |-> reqs[r].group, status |-> ErrorStatus(StoreError),
                 data |-> FALSE, valid |-> TRUE,
                 message |-> ErrorText(StoreError, "Server error fetching messages.")])
  /\ ChatFrame
  /\ UNCHANGED <<chatVars, clock, overlaps>>

\* u1 and u2 post to their groups and u1 reads pages of g1, one request after
\* the other
NextPage ==
  \/ Quiet /\ \E r \in ReqIds :
       \/ \E u \in {"u1", "u2"}, g \in GroupIds : PostMessage(r, u, g, Text(0, 1, 0))
       \/ \E hasLimit, hasBefore \in BOOLEAN, limit \in {0, 1, 2, MaxLimit + 1} :
            GetMessages(r, "u1", "g1", hasLimit, limit, hasBefore, 1)
  \/ \E r \in ReqIds : PostMessageWrite(r) \/ GetMessagesQuery(r)
SpecPage == InitWorld /\ [][NextPage]_vars
\* the tokens clients hold: u1's was issued at the first clock value, u2's
\* seven days before it, u3's one clock value later than u2's; a token of
\* u2 signed with a guessed secret, and a string that is no JWT
GoodToken == GenerateToken([userId |-> "u1", email |-> <<"a">>], 0)
ExpiredToken == GenerateToken([userId |-> "u2", email |-> <<"b">>], 0 - TokenLifetime)
ExpiringToken == GenerateToken([userId |-> "u3", email |-> <<"c">>], 1 - TokenLifetime)
ForgedToken == [ExpiredToken EXCEPT !.key = "guess"]
NoJwt == [NoToken EXCEPT !.key = "none"]
Headers ==
  {NoHeader, Header("Basic ", GoodToken), Header("Bearer ", NoToken)}
    \cup {Header("Bearer ", t) :
            t \in {GoodToken, ExpiredToken, ExpiringToken, ForgedToken, NoJwt}}

\* router.use(verifyToken) in front of POST /api/chat/:groupId/messages
PostMessageRequest(r, header, g, text) ==
  LET a == AuthMiddleware(header, clock)
  IN IF a.status = 200
     THEN PostMessage(r, a.user.userId, g, text)
     ELSE /\ FirstIdle(r)
          /\ Respond(r, [kind |-> "verify_token", status |-> a.status,
                         message |-> a.message, header |-> header])
          /\ emitted' = <<>>
          /\ ChatFrame
          /\ UNCHANGED <<chatVars, clock, overlaps>>

\* requests to post to g1 with each of the headers, one after the other
NextProtected ==
  \/ Quiet /\ \E r \in ReqIds, header \in Headers, n \in {1, 2} :
       PostMessageRequest(r, header, "g1", Text(0, n, 0))
  \/ \E r \in ReqIds : PostMessageWrite(r)
SpecProtected == InitWorld /\ [][NextProtected]_vars

\* u1's browser c3 joins g1 and sends messages without waiting for the
\* broadcast of the last one, and u1 reads the history of g1
NextOrder ==
  \/ Connect("c3", "u1")
  \/ Quiet /\ \E r \in ReqIds :
       \/ JoinGroupRecv(r, "c3", "g1")
       \/ GetMessages(r, "u1", "g1", FALSE, 0, FALSE, 0)
  \/ \E r \in ReqIds : SendMessageRecv(r, "c3", "g1", Text(0, 1, 0))
  \/ \E r \in ReqIds :
       JoinGroupResume(r) \/ SendMessageResume(r) \/ GetMessagesQuery(r)
SpecOrder == InitWorld /\ [][NextOrder]_vars

\* chatAPI.getMessages(groupId, limit, before) with before taken from the
\* oldest message of the page that was just received
GetOlderMessages(r, limit) ==
  /\ resp.status = 200
  /\ resp.kind = "get_messages"
  /\ resp.body # <<>>
  /\ GetMessages(r, resp.user, resp.group, TRUE, limit, TRUE, resp.body[1].createdAt)

\* u1 and u2 post to g1 and g2, and u1 pages backwards through g1
NextPaging ==
  \/ Quiet /\ \E r \in ReqIds :
       \/ \E u \in {"u1", "u2"}, g \in GroupIds : PostMessage(r, u, g, Text(0, 1, 0))
       \/ \E limit \in {1, 2} :
            \/ GetMessages(r, "u1", "g1", TRUE, limit, FALSE, 0)
            \/ GetOlderMessages(r, limit)
  \/ \E r \in ReqIds : PostMessageWrite(r) \/ GetMessagesQuery(r)
SpecPaging == InitWorld /\ [][NextPaging]_vars

\* u1 opens the chat of g1 (history request, connection, join_group) while
\* u2 posts to g1; what the server sends goes on its way at once and
\* arrives at any later time
NextView ==
  \/ HistorySent
  \/ EventSent
  \/ /\ ~HistoryAnswered
     /\ NewEvents = {}
     /\ \/ Connect("c3", "u1")
        \/ Quiet /\ \E r \in ReqIds :
             \/ JoinGroupRecv(r, "c3", "g1")
             \/ chatView.phase = "new"
                  /\ GetMessages(r, "u1", "g1", TRUE, DefaultLimit, FALSE, 0)
             \/ PostMessage(r, "u2", "g1", Text(0, 1, 0))
        \/ \E r \in ReqIds :
             JoinGroupResume(r) \/ GetMessagesQuery(r) \/ PostMessageWrite(r)
        \/ HistoryReceived
        \/ EventReceived
SpecView == InitWorld /\ [][NextView]_vars

\* the same requests, each store call of which may be rejected
NextFail ==
  \/ NextPage
  \/ \E r \in ReqIds : PostMessageWriteFails(r) \/ GetMessagesQueryFails(r)
SpecFail == InitWorld /\ [][NextFail]_vars

\* the same with the typing relay
NextTyping ==
  \/ NextPresence
  \/ \E c \in Conns, g \in GroupIds, ev \in {"typing", "stop_typing"} :
       Typing(c, g, ev)
SpecTyping == InitWorld /\ [][NextTyping]_vars

\* clients that wait for each response before the next request
NextGroupsSeq == (Quiet /\ GroupsStart) \/ GroupsStep
SpecGroupsSeq == Init /\ [][NextGroupsSeq]_vars

\* clients whose requests overlap
NextGroups == GroupsStart \/ GroupsStep
SpecGroups == Init /\ [][NextGroups]_vars

\* =================================================================== claims
Entries(members, u) == {i \in 1..Len(members) : members[i].userId = u}
Admins(members) == {i \in 1..Len(members) : members[i].role = "admin"}
SoleAdmin(members, u) ==
  /\ Admins(members) # {}
  /\ Admins(members) \subseteq Entries(members, u)

\* C1: when a connection that is in the rooms of groups A and B disconnects,
\* the roster of A and of B has no entry for its user after the handler, and
\* every connection that stays in one of these rooms is sent exactly one
\* user_left for that group and that user.
C1_DisconnectClearsPresence ==
  [][\A c \in Conns :
       (sockState[c] = "connected" /\ sockState'[c] = "closed")
         => \A g \in GroupIds :
              c \in rooms[g]
                => /\ g \in DOMAIN onlineUsers'
                        => sockUser[c] \notin DOMAIN onlineUsers'[g]
                   /\ \A d \in rooms[g] \ {c} :
                        Cardinality({i \in DOMAIN emitted' :
                                       /\ emitted'[i].ev = "user_left"
                                       /\ emitted'[i].room = g
                                       /\ emitted'[i].userId = sockUser[c]
                                       /\ d \in emitted'[i].to}) = 1
    ]_vars

\* a connection that was in two rooms has gone, and each of the two user_left
\* events went to somebody who stayed
C1_Witness ==
  \E c \in Conns :
    /\ sockState[c] = "closed"
    /\ Len(emitted) = 2
    /\ \A i \in 1..2 :
         /\ emitted[i].ev = "user_left"
         /\ emitted[i].userId = sockUser[c]
         /\ emitted[i].to # {}
    /\ emitted[1].room # emitted[2].room

\* the saved versions are compared by content, editor and timestamp
SameVersion(entry, noteData) ==
  /\ entry.content = noteData.content
  /\ entry.savedBy = noteData.lastEditedBy
  /\ entry.savedAt = noteData.lastEditedAt

\* C2: with saves that do not overlap, starting without a note document,
\* after N saves the history holds N-1 entries and entry k is the version
\* written by save k (content, editor, timestamp); the entry is there before
\* the overwrite is done, and the note is the version of the last save.
C2_HistoryHoldsReplacedVersions ==
  \A g \in GroupIds :
    LET h == noteHistory[g]
        w == saveLog[g]
        writing == {r \in ReqIds : reqs[r].pc = "note_write" /\ reqs[r].group = g}
    IN /\ Len(h) = IF w = <<>> THEN 0
                   ELSE IF writing # {} THEN Len(w) ELSE Len(w) - 1
       /\ \A k \in 1..Len(h) : SameVersion(h[k], w[k])
       /\ w # <<>> => notes[g] = w[Len(w)]
       /\ w = <<>> => ~notes[g].exists

\* three saves are done: two entries, of different content, neither of them
\* the version the note holds now
C2_Witness ==
  /\ Quiet
  /\ Len(saveLog["g1"]) = 3
  /\ Len(noteHistory["g1"]) = 2
  /\ noteHistory["g1"][1].content # noteHistory["g1"][2].content
  /\ noteHistory["g1"][2].content # notes["g1"].content
  /\ resp.status = 200

\* C3 as stated: once overlapping saves are through, the last write is the
\* note and the content of every earlier write is in the history.
C3_EarlierContentInHistory ==
  \A g \in GroupIds :
    SavesInFlight(g) = {}
      => /\ saveLog[g] # <<>> => notes[g] = saveLog[g][Len(saveLog[g])]
         /\ \A k \in 1..(Len(saveLog[g]) - 1) :
              \E i \in 1..Len(noteHistory[g]) :
                noteHistory[g][i].content = saveLog[g][k].content

\* C3: with overlapping saves the last write is the current note; every
\* history entry, written or about to be written, is a version that an
\* earlier save wrote: the one that was the note when its save read it.
C3_LaterWriteWins ==
  \A g \in GroupIds :
    /\ saveLog[g] # <<>> => notes[g] = saveLog[g][Len(saveLog[g])]
    /\ \A i \in 1..Len(noteHistory[g]) :
         \E k \in 1..Len(saveLog[g]) : SameVersion(noteHistory[g][i], saveLog[g][k])
    /\ \A r \in ReqIds :
         (reqs[r].pc = "note_archive" /\ reqs[r].group = g)
           => \E k \in 1..Len(saveLog[g]) : SameVersion(reqs[r].entry, saveLog[g][k])

\* two saves of different content are through and nothing was archived:
\* both read before either wrote
C3_Witness ==
  /\ Quiet
  /\ Len(saveLog["g1"]) = 2
  /\ noteHistory["g1"] = <<>>
  /\ saveLog["g1"][1].content # saveLog["g1"][2].content

\* C4 as stated: a message is stored for a group only if its sender is on
\* the group's member list.
C4_StoredSenderIsMember ==
  \A m \in messages :
    /\ Exists(groups[m.groupId])
    /\ IsMember(groups[m.groupId].members, m.senderId)

\* the REST endpoints addressed to one group, and what they guard
ScopedKinds ==
  {"get_messages", "post_message", "delete_message", "get_note", "put_note",
   "get_history", "get_tasks", "post_task", "put_task", "complete_task",
   "delete_task", "get_group", "get_members"}
Store == <<groups, userGroups, messages, tasks, notes, noteHistory>>

\* C5 as stated: a caller outside the member list is answered 403, or 404
\* when the group does not exist, without data and with the store unchanged.
C5_OutsiderGets403Or404 ==
  [][(/\ resp'.status # 0
      /\ resp'.kind \in ScopedKinds
      /\ ~IsMember(groups[resp'.group].members, resp'.user))
       => /\ resp'.status = IF Exists(groups[resp'.group]) THEN 403 ELSE 404
          /\ ~resp'.data
          /\ Store' = Store
    ]_vars

\* C5: a caller outside the member list is answered 400 when the request
\* fails the endpoint's input validation, else 403, or 404 when the group
\* does not exist; the response carries no data, nothing is emitted, the
\* store is unchanged and the handler does not go on.
C5_OutsiderRefused ==
  [][/\ (/\ resp'.status # 0
         /\ resp'.kind \in ScopedKinds
         /\ ~IsMember(groups[resp'.group].members, resp'.user))
          => /\ resp'.status = IF ~resp'.valid THEN 400
                               ELSE IF Exists(groups[resp'.group]) THEN 403
                               ELSE 404
             /\ ~resp'.data
             /\ emitted' = <<>>
             /\ Store' = Store
     /\ \A r \in ReqIds :
          reqs'[r] # Idle
            => IsMember(groups[reqs'[r].group].members, reqs'[r].user)
    ]_vars

\* an outsider of a group that exists and has messages has posted a text
\* that fails validation, and was answered 400
C5_Witness ==
  /\ resp.status = 400
  /\ resp.kind = "post_message"
  /\ ~resp.valid
  /\ Exists(groups[resp.group])
  /\ ~IsMember(groups[resp.group].members, resp.user)
  /\ \E m \in messages : m.groupId = resp.group

\* C6: with requests that do not overlap, every existing group has a
\* non-empty member list with at least one admin; once the leave of the last
\* member has done its write the group document is gone, and GET /groups/:id
\* of a group that does not exist answers 404.
C6_GroupKeepsAdmin ==
  /\ \A g \in GroupIds :
       Exists(groups[g]) =>
         /\ groups[g].members # <<>>
         /\ Admins(groups[g].members) # {}
  /\ \A r \in ReqIds :
       reqs[r].pc = "leave_user"
         => IF reqs[r].remaining = <<>>
            THEN ~Exists(groups[reqs[r].group])
            ELSE ~IsMember(groups[reqs[r].group].members, reqs[r].user)
  /\ (resp.status # 0 /\ resp.kind = "get_group" /\ ~Exists(groups[resp.group]))
       => resp.status = 404

\* a GET of a group that its last member has left is answered 404
C6_Witness ==
  /\ resp.status = 404
  /\ resp.kind = "get_group"
  /\ resp.group \in InitFreeIds \ freeIds

C8_SoleAdminLeaveRejected ==
  \A r \in ReqIds :
    (/\ reqs[r].pc = "leave_write"
     /\ SoleAdmin(groups[reqs[r].group].members, reqs[r].user))
      => reqs[r].remaining = <<>>

\* C9: with requests that do not overlap, a join by a member with the right
\* code is answered 409 and leaves the store as it was; a join by a
\* non-member with the right code is never refused; when a join is answered
\* 200 the member list holds exactly one entry of the joiner.
C9_SecondJoinConflict ==
  [][/\ (/\ Quiet /\ Quiet'
         /\ resp'.status # 0 /\ resp'.kind = "join"
         /\ Exists(groups[resp'.group])
         /\ resp'.code # <<>>
         /\ ToUpperCase(resp'.code) = ToUpperCase(groups[resp'.group].inviteCode))
        => /\ IsMember(groups[resp'.group].members, resp'.user)
           /\ resp'.status = 409
           /\ groups' = groups
           /\ userGroups' = userGroups
     /\ \A r \in ReqIds :
          (reqs[r].pc = "join_user" /\ reqs'[r] = Idle)
            => /\ resp'.status = 200
               /\ Cardinality(Entries(groups'[resp'.group].members, resp'.user)) = 1
               /\ resp'.group \in userGroups'[resp'.user]
    ]_vars

\* a user whose join went through (a plain member, the group on their list)
\* has just been answered 409
C9_Witness ==
  /\ resp.status = 409
  /\ resp.kind = "join"
  /\ resp.group \in userGroups[resp.user]
  /\ \E i \in Entries(groups[resp.group].members, resp.user) :
       groups[resp.group].members[i].role = "member"

\* C10: a PUT, PATCH complete or DELETE of a task, or a DELETE of a message,
\* that exists under another group than the one in the path is answered with
\* a 4xx status; no task and no message changes, nothing is emitted, and no
\* such request gets as far as its write.
C10_CrossGroupRejected ==
  [][/\ (/\ resp'.status # 0
         /\ resp'.kind \in {"put_task", "complete_task", "delete_task"}
         /\ TaskDoc(resp'.task).exists
         /\ TaskDoc(resp'.task).groupId # resp'.group)
          => /\ resp'.status >= 400 /\ resp'.status <= 499
             /\ ~resp'.data
             /\ <<tasks, messages>>' = <<tasks, messages>>
             /\ emitted' = <<>>
     /\ (/\ resp'.status # 0
         /\ resp'.kind = "delete_message"
         /\ MessageDoc(resp'.message).exists
         /\ MessageDoc(resp'.message).groupId # resp'.group)
          => /\ resp'.status >= 400 /\ resp'.status <= 499
             /\ <<tasks, messages>>' = <<tasks, messages>>
             /\ emitted' = <<>>
     /\ \A r \in ReqIds :
          /\ reqs'[r].pc \in {"put_task_write", "complete_task_write",
                              "delete_task_write"}
               => TaskDoc(reqs'[r].task).groupId = reqs'[r].group
          /\ reqs'[r].pc = "delete_message_write"
               => MessageDoc(reqs'[r].message).groupId = reqs'[r].group
    ]_vars

\* the sender of a message of one group, a member of another group too, has
\* asked for its deletion under the other group's path and was answered 400
C10_Witness ==
  /\ resp.status = 400
  /\ resp.kind = "delete_message"
  /\ MessageDoc(resp.message).exists
  /\ MessageDoc(resp.message).senderId = resp.user
  /\ MessageDoc(resp.message).groupId # resp.group
  /\ \E t \in tasks : t.groupId # resp.group

\* the requests that hold a message they are about to write
Posting == {r \in ReqIds : reqs[r].pc \in {"post_write", "sock_send"}}

Guests == {c \in Conns : sockState[c] = "connected" /\ sockUser[c] = NoUser}

\* C12: a connection without identity is in no room and in no joined-room
\* set, no join or send of it is awaiting the store, the roster and the
\* messages hold nothing of it; the step that answers it "Authentication
\* required." sends that one error to it alone, leaves it connected and
\* changes no room, roster, joined-room set, message or pending request.
C12_GuestEventsRefused ==
  [][/\ \A c \in Guests' :
          /\ \A g \in GroupIds : c \notin rooms'[g]
          /\ joinedGroups'[c] = <<>>
          /\ \A r \in ReqIds :
               reqs'[r].pc \in {"sock_join", "sock_send"} => reqs'[r].conn # c
     /\ \A g \in DOMAIN onlineUsers' : NoUser \notin DOMAIN onlineUsers'[g]
     /\ \A m \in messages' : m.senderId # NoUser
     /\ (/\ emitted' # <<>>
         /\ emitted'[1].ev = "error"
         /\ emitted'[1].arg = "Authentication required.")
          => /\ Len(emitted') = 1
             /\ emitted'[1].to \subseteq Guests
             /\ Cardinality(emitted'[1].to) = 1
             /\ sockVars' = sockVars
             /\ chatVars' = chatVars
             /\ reqs' = reqs
    ]_vars

\* a connection without identity has been answered with the error while
\* another connection is in a room and a message is stored
C12_Witness ==
  /\ emitted # <<>>
  /\ emitted[1].ev = "error"
  /\ emitted[1].arg = "Authentication required."
  /\ emitted[1].to \subseteq Guests
  /\ emitted[1].to # {}
  /\ \E g \in GroupIds : rooms[g] # {}
  /\ messages # {}

\* the join_group requests that end in this step
Joining(r) == reqs[r].pc = "sock_join" /\ reqs'[r] = Idle

\* C13: a connection enters a room, a joined-room set or the roster only in
\* the step in which its join_group reads the group, and only when the group
\* read in that step exists and lists its user as a member; a join_group whose
\* read finds no such group or no such member is answered with one error
\* event to the connection and changes no room, roster or joined-room set.
C13_AdmittedOnlyAfterRead ==
  [][/\ \A c \in Conns, g \in GroupIds :
          (\/ c \in rooms'[g] \ rooms[g]
           \/ (g \in Range(joinedGroups'[c]) /\ g \notin Range(joinedGroups[c])))
            => /\ \E r \in ReqIds :
                    Joining(r) /\ reqs[r].conn = c /\ reqs[r].group = g
               /\ Exists(groups[g])
               /\ IsMember(groups[g].members, sockUser[c])
     /\ onlineUsers' # onlineUsers
          => \E r \in ReqIds :
               /\ Joining(r)
               /\ Exists(groups[reqs[r].group])
               /\ IsMember(groups[reqs[r].group].members, sockUser[reqs[r].conn])
     /\ \A r \in ReqIds :
          (/\ Joining(r)
           /\ ~(/\ Exists(groups[reqs[r].group])
                /\ IsMember(groups[reqs[r].group].members,
                            sockUser[reqs[r].conn])))
            => /\ Len(emitted') = 1
               /\ emitted'[1].ev = "error"
               /\ emitted'[1].to = {reqs[r].conn}
               /\ rooms' = rooms
               /\ onlineUsers' = onlineUsers
               /\ joinedGroups' = joinedGroups
    ]_vars

\* u2 on c1 is in the room of g2 and has just been refused the room of g1,
\* which it left over REST
C13_Witness ==
  /\ emitted # <<>>
  /\ emitted[1].ev = "error"
  /\ emitted[1].arg = "You are not a member of this group."
  /\ emitted[1].to = {"c1"}
  /\ Exists(groups["g1"]) /\ ~IsMember(groups["g1"].members, "u2")
  /\ Exists(groups["g2"]) /\ IsMember(groups["g2"].members, "u2")
  /\ "c1" \in rooms["g2"]
  /\ "c1" \notin rooms["g1"]

\* the join_group events of connection c for group g that await their read
PendingJoins(c, g) ==
  {r \in ReqIds : /\ reqs[r].pc = "sock_join"
                  /\ reqs[r].conn = c
                  /\ reqs[r].group = g}

\* C14: when a connection has sent join_group{G} and then leave_group{G}, then
\* once both are processed (the join_group, whose read the leave_group
\* overtook, ends and no other join_group{G} of the connection is pending),
\* the connection is not in room G, G is not in its joined-room set and the
\* roster of G holds no entry of that connection.
C14_LeaveAfterJoinLeavesRoom ==
  [][\A r \in ReqIds :
       (/\ Joining(r)
        /\ reqs[r].overtaken
        /\ sockState[reqs[r].conn] = "connected"
        /\ PendingJoins(reqs[r].conn, reqs[r].group)' = {})
         => /\ reqs[r].conn \notin rooms'[reqs[r].group]
            /\ reqs[r].group \notin Range(joinedGroups'[reqs[r].conn])
            /\ \A e \in GetOnlineUsers(onlineUsers', reqs[r].group) :
                 e.socketId # reqs[r].conn
    ]_vars

\* C15: a leave_group{G} of a connection that is in room G takes the group
\* out of the connection's joined-room set and the user off the roster of G,
\* and sends one user_left to the connections that remain in the room; the
\* roster never keeps a group with no user in it; a disconnect sends
\* user_left only for the groups in the joined-room set, into which a group
\* comes back only by a join_group, so none for a group that was left.
C15_LeaveGroupCleansUp ==
  [][/\ \A c \in Conns, g \in GroupIds :
          (c \in rooms[g] /\ c \notin rooms'[g] /\ sockState'[c] = "connected")
            => /\ g \notin Range(joinedGroups'[c])
               /\ g \in DOMAIN onlineUsers' =>
                    sockUser[c] \notin DOMAIN onlineUsers'[g]
               /\ emitted' = <<Event("user_left", rooms[g] \ {c}, g,
                                     sockUser[c], "")>>
     /\ \A g \in DOMAIN onlineUsers' : DOMAIN onlineUsers'[g] # {}
     /\ \A c \in Conns :
          (sockState[c] = "connected" /\ sockState'[c] = "closed")
            => \A i \in 1..Len(emitted') :
                 /\ emitted'[i].ev = "user_left"
                 /\ emitted'[i].room \in Range(joinedGroups[c])
     /\ \A c \in Conns, g \in GroupIds :
          (g \in Range(joinedGroups'[c]) /\ g \notin Range(joinedGroups[c]))
            => \E r \in ReqIds :
                 Joining(r) /\ reqs[r].conn = c /\ reqs[r].group = g
    ]_vars

\* u2 has left room g1 on a connection that is still open and is in room g2;
\* u1 on c3, the one remaining in room g1, is sent user_left, and the roster
\* of g1 holds u1 alone
C15_Witness ==
  /\ \A c \in Conns : sockState[c] # "closed"
  /\ emitted = <<Event("user_left", {"c3"}, "g1", "u2", "")>>
  /\ rooms["g1"] = {"c3"}
  /\ "g1" \in DOMAIN onlineUsers /\ DOMAIN onlineUsers["g1"] = {"u1"}
  /\ joinedGroups["c1"] = <<"g2">>
  /\ "g2" \in DOMAIN onlineUsers /\ DOMAIN onlineUsers["g2"] = {"u2"}

\* the events of the last step with the given name
EventsNamed(evs, name) == {i \in 1..Len(evs) : evs[i].ev = name}

\* C16: when a join_group{G} of an open connection ends in admission, the
\* step sends exactly one online_users event, to the joiner alone, whose
\* list is every entry the roster of G then holds, the joiner's user among
\* them, and exactly one user_joined for that user, to every connection in
\* room G other than the joiner.
C16_JoinAnnounced ==
  [][\A r \in ReqIds :
       LET c == reqs[r].conn
           g == reqs[r].group
       IN (/\ Joining(r)
           /\ sockState[c] = "connected"
           /\ Exists(groups[g])
           /\ IsMember(groups[g].members, sockUser[c]))
            => /\ c \in rooms'[g]
               /\ g \in DOMAIN onlineUsers'
               /\ \E i \in 1..Len(emitted') :
                    /\ EventsNamed(emitted', "online_users") = {i}
                    /\ emitted'[i].to = {c}
                    /\ emitted'[i].room = g
                    /\ emitted'[i].arg =
                         {onlineUsers'[g][u] : u \in DOMAIN onlineUsers'[g]}
                    /\ \E e \in emitted'[i].arg :
                         e.userId = sockUser[c] /\ e.socketId = c
               /\ \E i \in 1..Len(emitted') :
                    /\ EventsNamed(emitted', "user_joined") = {i}
                    /\ emitted'[i].to = rooms'[g] \ {c}
                    /\ emitted'[i].room = g
                    /\ emitted'[i].userId = sockUser[c]
    ]_vars

\* u1 on c3 has just joined room g1, where u2 is on c1: c1 is sent
\* user_joined and c3 the roster of u1 and u2
C16_Witness ==
  /\ Len(emitted) = 2
  /\ emitted[1] = Event("user_joined", {"c1"}, "g1", "u1", "")
  /\ emitted[2].ev = "online_users"
  /\ emitted[2].to = {"c3"}
  /\ {e.userId : e \in emitted[2].arg} = {"u1", "u2"}
  /\ rooms["g1"] = {"c1", "c3"}

\* the last save of group g and the content the note held before it ("" is
\* what GET shows while no document exists)
LastSaved(g) == saveLog[g][Len(saveLog[g])]
ContentBefore(g) ==
  IF Len(saveLog[g]) >= 2 THEN saveLog[g][Len(saveLog[g]) - 1].content ELSE ""

\* C17 as stated: after a save of group g, a GET that follows it returns the
\* saved content, and a history query that follows it returns as its first
\* entry the content the note held before that save.
C17_RoundTrip ==
  (resp.status = 200 /\ resp.kind \in {"get_note", "get_history"}
     /\ saveLog[resp.group] # <<>>)
    => IF resp.kind = "get_note"
       THEN resp.body.content = LastSaved(resp.group).content
       ELSE /\ resp.body # <<>>
            /\ resp.body[1].content = ContentBefore(resp.group)

\* C17, amended: after a save of group g, a GET that follows it returns the
\* saved content; when the save replaced an existing document, a history
\* query that follows it returns an entry with the replaced content whose
\* archivedAt no other entry exceeds, and returns it first when no other
\* entry has the same archivedAt.
C17_RoundTripOfReplacedNote ==
  (resp.status = 200 /\ resp.kind \in {"get_note", "get_history"}
     /\ saveLog[resp.group] # <<>>)
    => IF resp.kind = "get_note"
       THEN resp.body.content = LastSaved(resp.group).content
       ELSE Len(saveLog[resp.group]) >= 2 =>
              \E i \in 1..Len(resp.body) :
                /\ resp.body[i].content = ContentBefore(resp.group)
                /\ \A j \in 1..Len(resp.body) :
                     resp.body[j].archivedAt <= resp.body[i].archivedAt
                /\ (\A j \in 1..Len(resp.body) :
                      j # i => resp.body[j].archivedAt < resp.body[i].archivedAt)
                     => i = 1

\* the history query after the third save of g1: two entries of different
\* archive times, the first one holding the content of the second save
C17_Witness ==
  /\ resp.status = 200
  /\ resp.kind = "get_history"
  /\ Len(saveLog[resp.group]) = 3
  /\ Len(resp.body) = 2
  /\ resp.body[1].archivedAt > resp.body[2].archivedAt
  /\ resp.body[1].content = saveLog[resp.group][2].content
  /\ resp.body[1].content # saveLog[resp.group][1].content

\* an email compared without regard to case
CaseFolded(s) == [i \in 1..Len(s) |-> LowerChar(s[i])]
Holders(email) == {d \in users : CaseFolded(d.email) = CaseFolded(email)}

\* C18: the step that answers a registration 201 persists exactly one new
\* user record, and the token of the response, verified, yields that
\* record's userId; a registration is answered 400 only for an invalid body,
\* and one whose email, compared case-folded, belongs to a user record when
\* the handler looks it up goes no further: it is answered 409 and no user
\* record is created.
C18_RegistrationContract ==
  [][/\ (resp'.status = 201 /\ resp'.kind = "register")
          => \E d \in users' \ users :
               /\ users' = users \cup {d}
               /\ CaseFolded(d.email) = CaseFolded(resp'.email)
               /\ VerifyToken(resp'.token, clock').status = 200
               /\ VerifyToken(resp'.token, clock').user.userId = d.userId
     /\ (resp'.status = 400 /\ resp'.kind = "register") => ~resp'.valid
     /\ (resp'.status = 409 /\ resp'.kind = "register")
          => users' = users /\ Holders(resp'.email) # {}
     /\ \A r \in ReqIds :
          (reqs[r] = Idle /\ reqs'[r].pc = "register_write")
            => Holders(reqs'[r].email) = {}
    ]_vars

\* the email "A" has just been refused with 409 while the one user record
\* holds "a"
C18_Witness ==
  /\ resp.status = 409
  /\ resp.kind = "register"
  /\ resp.email = <<"A">>
  /\ \E d \in users : d.email = <<"a">> /\ d.provider = "email"
  /\ Cardinality(users) = 1

\* C19: no two user records hold the same case-folded email.
C19_EmailsUnique ==
  \A d, e \in users : d # e => CaseFolded(d.email) # CaseFolded(e.email)

\* C20: a task has completed = true exactly when completedAt and completedBy
\* are both set (not null).
C20_CompletedIffStamped ==
  \A t \in tasks :
    (t.completed = JsonValue("boolean", "true"))
      <=> (t.completedAt # -1 /\ t.completedBy # NoOne)

\* the DELETE requests on a message that end in this step with the deletion
Deleting(r) == reqs[r].pc = "delete_message_write" /\ reqs'[r] = Idle

\* C21: a message leaves the store only in the step that ends a DELETE of a
\* caller who is a member of the path group and the recorded sender of the
\* message, whose groupId is the path group; that step sends one
\* message_deleted{messageId, groupId} to the room of the group and answers
\* 200; a DELETE answered with another status removes nothing and sends
\* nothing, and it is so answered only when one of the conditions fails.
C21_OnlySenderDeletes ==
  [][/\ \A m \in messages \ messages' :
          \E r \in ReqIds :
            /\ Deleting(r)
            /\ reqs[r].message = m.messageId
            /\ reqs[r].group = m.groupId
            /\ reqs[r].user = m.senderId
            /\ Exists(groups[m.groupId])
            /\ IsMember(groups[m.groupId].members, reqs[r].user)
            /\ emitted' = <<Event("message_deleted", Live(rooms[m.groupId]),
                                  m.groupId, NoUser, m.messageId)>>
            /\ resp'.status = 200
     /\ \A i \in 1..Len(emitted') :
          emitted'[i].ev = "message_deleted"
            => \E m \in messages \ messages' : m.messageId = emitted'[i].arg
     /\ (resp'.status \notin {0, 200} /\ resp'.kind = "delete_message")
          => /\ messages' = messages
             /\ emitted' = <<>>
             /\ ~\E m \in messages :
                   /\ m.messageId = resp'.message
                   /\ m.groupId = resp'.group
                   /\ m.senderId = resp'.user
                   /\ Exists(groups[resp'.group])
                   /\ IsMember(groups[resp'.group].members, resp'.user)
    ]_vars

\* u1 has deleted its message 2 of g1 while message 1 of u2 is still stored
C21_Witness ==
  /\ resp.status = 200
  /\ resp.kind = "delete_message"
  /\ resp.user = "u1"
  /\ emitted # <<>>
  /\ emitted[1].ev = "message_deleted"
  /\ emitted[1].arg = 2
  /\ {m.messageId : m \in messages} = {1}

\* C22: a step sends new_message only when it has written that message: the
\* payload is a document the step added to the store, no other stored
\* document has its messageId, and it goes to the room of its group; a
\* posting step whose write is rejected sends no new_message and stores
\* nothing.
C22_EmittedAfterWrite ==
  [][/\ \A i \in 1..Len(emitted') :
          emitted'[i].ev = "new_message"
            => /\ emitted'[i].arg \in messages' \ messages
               /\ \A m \in messages' :
                    m.messageId = emitted'[i].arg.messageId => m = emitted'[i].arg
               /\ emitted'[i].room = emitted'[i].arg.groupId
               /\ emitted'[i].to = Live(rooms[emitted'[i].arg.groupId])
     /\ \A m \in messages' \ messages :
          \E i \in 1..Len(emitted') :
            emitted'[i].ev = "new_message" /\ emitted'[i].arg = m
     /\ \A r \in Posting :
          (reqs'[r] = Idle /\ reqs[r].message \notin messages')
            => /\ messages' = messages
               /\ \A i \in 1..Len(emitted') : emitted'[i].ev # "new_message"
    ]_vars

\* the second message has just been written and sent to c3 in room g1
C22_Witness ==
  /\ emitted # <<>>
  /\ emitted[1].ev = "new_message"
  /\ emitted[1].to = {"c3"}
  /\ emitted[1].arg \in messages
  /\ emitted[1].arg.messageId = 2
  /\ Cardinality(messages) = 1

\* the messages a page request asks for, and how many of them
Asked(q) ==
  {m \in messages : /\ m.groupId = q.group
                    /\ q.hasBefore => m.createdAt < q.before}
AskedCount(q) ==
  LET n == IF q.query.hasLimit THEN q.query.limit ELSE 50
  IN IF Cardinality(Asked(q)) < n THEN Cardinality(Asked(q)) ELSE n

\* C23: a page request is taken up only with no limit or one from 1 to 100;
\* its answer holds as many messages as were asked for (50 without a limit)
\* or all there are, each one a different message of the path group with
\* createdAt before the cursor when one is given, in ascending createdAt
\* order, and no message left out is newer than one that is returned.
C23_NewestPageAscending ==
  [][\A r \in ReqIds :
       /\ (reqs[r] = Idle /\ reqs'[r].pc = "get_messages")
            => (\/ ~reqs'[r].query.hasLimit
                \/ reqs'[r].query.limit >= 1 /\ reqs'[r].query.limit <= 100)
       /\ (reqs[r].pc = "get_messages" /\ reqs'[r] = Idle)
            => /\ resp'.status = 200
               /\ Len(resp'.body) = AskedCount(reqs[r])
               /\ Len(resp'.body) <= 100
               /\ \A i \in 1..Len(resp'.body) :
                    /\ resp'.body[i] \in Asked(reqs[r])
                    /\ \A j \in 1..Len(resp'.body) :
                         /\ i # j => resp'.body[i] # resp'.body[j]
                         /\ i < j => resp'.body[i].createdAt <= resp'.body[j].createdAt
                    /\ \A m \in Asked(reqs[r]) \ Range(resp'.body) :
                         m.createdAt <= resp'.body[i].createdAt
    ]_vars

\* with an older and a newer message in g1, a page of one message has
\* returned the newer one
C23_Witness ==
  /\ resp.status = 200
  /\ resp.kind = "get_messages"
  /\ Len(resp.body) = 1
  /\ \E m \in messages :
       m.groupId = "g1" /\ m.createdAt < resp.body[1].createdAt

\* the entries of sequence h archived at t
ArchivedAt(h, t) == {i \in 1..Len(h) : h[i].archivedAt = t}

\* C24: the history answer holds ten entries, or all when fewer are stored,
\* never more; each is a stored entry, they come newest archive first, and
\* every stored entry archived later than the oldest one returned is
\* returned too.
C24_TenNewestFirst ==
  (resp.status = 200 /\ resp.kind = "get_history")
    => LET h == noteHistory[resp.group]
           b == resp.body
       IN /\ Len(b) <= 10
          /\ Len(b) = (IF Len(h) < 10 THEN Len(h) ELSE 10)
          /\ \A i \in 1..Len(b) :
               /\ \E k \in 1..Len(h) : h[k] = b[i]
               /\ \A j \in 1..Len(b) : i < j => b[i].archivedAt >= b[j].archivedAt
               /\ \A k \in 1..Len(h) :
                    h[k].archivedAt > b[Len(b)].archivedAt
                      => Cardinality(ArchivedAt(h, h[k].archivedAt))
                           = Cardinality(ArchivedAt(b, h[k].archivedAt))

\* twelve versions are archived, two of them in this run, and the answer
\* holds ten, the newest first
C24_Witness ==
  /\ resp.status = 200
  /\ resp.kind = "get_history"
  /\ Len(noteHistory["g1"]) = 12
  /\ Len(resp.body) = 10
  /\ resp.body[1].archivedAt >= 0

\* C25: a response to a request whose store call was rejected has status 500
\* and a fixed message, not the text of the error.
C25_FailureAnsweredGenerically ==
  (resp.status # 0 /\ resp.kind \in {"get_messages", "post_message"}
     /\ ~resp.data /\ resp.valid /\ resp.status \notin {403, 404})
    => /\ resp.status = 500
       /\ resp.message \in {"Server error fetching messages.",
                            "Server error posting message."}

\* the headers verifyToken must let pass at clock value now, and whose they are
Passes(header, now) ==
  /\ header.scheme = "Bearer "
  /\ header.token.key = "JWT_SECRET"
  /\ now < header.token.exp
Bearer(u) == {hd \in Headers : hd.token.payload.userId = u}

\* C26: a request answered by the middleware gets 401, with one message for
\* an expired token and another for a malformed or wrongly signed one, and
\* nothing is read, written or started for it; and a handler that has run
\* for user u ran for a header that carries a token of u with the right
\* signature that had not expired.
C26_OnlyValidTokensPass ==
  [][
     /\ (resp'.status # 0 /\ resp'.kind = "verify_token")
          => /\ resp'.status = 401
             /\ ~Passes(resp'.header, clock)
             /\ UNCHANGED <<reqs, groupVars, chatVars, noteVars, taskVars>>
             /\ (resp'.header.scheme = "Bearer " /\ resp'.header.token # NoToken)
                  => (resp'.message = "Token has expired. Please log in again.")
                       = (resp'.header.token.key = "JWT_SECRET")
     /\ \A r \in ReqIds :
          (reqs[r] = Idle /\ reqs'[r].pc = "post_write")
            => \E hd \in Bearer(reqs'[r].user) : Passes(hd, clock)
     /\ (resp'.status # 0 /\ resp'.kind = "post_message" /\ Quiet)
          => \E hd \in Bearer(resp'.user) : Passes(hd, clock)
    ]_vars

\* u3's token has expired by now and is answered with the message for
\* expired tokens, after u1 has posted with a valid one
C26_Witness ==
  /\ resp.status = 401
  /\ resp.kind = "verify_token"
  /\ resp.header = Header("Bearer ", ExpiringToken)
  /\ resp.message = "Token has expired. Please log in again."
  /\ \E m \in messages : m.senderId = "u1"

\* two codes that are equal but for the case of their letters
SameCode(a, b) == CaseFolded(a) = CaseFolded(b)
\* the same once the blanks around the typed code are removed
SameTrimmedCode(a, b) == CaseFolded(a) = CaseFolded(TrimCode(b))

\* what a join request of a user who is no member of the group it names does,
\* when Same says which typed codes are the group's: refused with 400 and
\* nothing changed exactly when the code is another; otherwise one entry
\* for the user with role member is appended to the member list, then the
\* group id is added to the user's list and the answer is 200
JoinContract(Same(_, _)) ==
  \A r \in ReqIds :
     LET q == reqs[r]
         p == reqs'[r]
     IN /\ (q = Idle /\ resp'.status # 0 /\ resp'.kind = "join"
              /\ Exists(groups[resp'.group])
              /\ ~IsMember(groups[resp'.group].members, resp'.user))
             => /\ resp'.status = 400
                /\ ~Same(groups[resp'.group].inviteCode, resp'.code)
                /\ UNCHANGED <<groups, userGroups>>
        /\ (q = Idle /\ p.pc = "join_update")
             => /\ Same(groups[p.group].inviteCode, p.code)
                /\ UNCHANGED <<groups, userGroups>>
        /\ (q.pc = "join_update" /\ Exists(groups[q.group]))
             => /\ p.pc = "join_user"
                /\ \E e \in Range(groups'[q.group].members) :
                     /\ groups' = [groups EXCEPT ![q.group].members = Append(@, e)]
                     /\ e.userId = q.user
                     /\ e.role = "member"
                /\ UNCHANGED userGroups
        /\ q.pc = "join_user"
             => /\ p = Idle
                /\ resp'.status = 200
                /\ userGroups' = [userGroups EXCEPT ![q.user] = @ \cup {q.group}]
                /\ UNCHANGED groups

\* C27 as stated: a non-member's join succeeds exactly when the typed code
\* equals the group's code ignoring letter case; then one member entry is
\* appended and the group id added to the caller's list; otherwise the
\* answer is 400 and neither list changes.
C27_JoinByCode == [][JoinContract(SameCode)]_vars

\* C27, amended: the same, the typed code being compared after the blanks
\* around it are removed.
C27_JoinByTrimmedCode == [][JoinContract(SameTrimmedCode)]_vars

\* u3, who was no member of g1, has joined it
C27_Witness ==
  /\ resp.status = 200
  /\ resp.kind = "join"
  /\ resp.user = "u3"
  /\ resp.group = "g1"
  /\ IsMember(groups["g1"].members, "u3")
  /\ "g1" \in userGroups["u3"]

\* C28: when a connected client sends authenticate with a valid JWT, the
\* connection is tagged with the token's user and authenticated is sent to
\* it; a connection that has done so is not refused for want of an identity.
C28_AuthenticateTagsConnection ==
  [][\A c \in Conns :
       /\ sentAuth'[c] # sentAuth[c]
            => /\ sockUser'[c] = sentAuth'[c]
               /\ \E i \in 1..Len(emitted') :
                    emitted'[i].ev = "authenticated" /\ c \in emitted'[i].to
       /\ (sentAuth[c] # NoUser /\ sockState[c] = "connected")
            => ~(emitted' = <<ErrorTo(c, "Authentication required.")>>)
    ]_vars

\* C29: once a connection is closed and no join_group of it awaits its
\* read, its joined-room set is empty and no roster holds an entry with its
\* socket id.
C29_ClosedConnectionLeavesNothing ==
  \A c \in Conns :
    (sockState[c] = "closed"
       /\ \A r \in ReqIds : ~(reqs[r].pc = "sock_join" /\ reqs[r].conn = c))
      => /\ joinedGroups[c] = <<>>
         /\ \A g \in GroupIds : \A e \in GetOnlineUsers(onlineUsers, g) :
              e.socketId # c

\* the live connections of user u in the room of g
Tabs(g, u) == {c \in Live(rooms[g]) : sockUser[c] = u}

\* C30: when no join_group awaits its read, the roster of a group holds a
\* user exactly when a live connection of that user is in the group's room;
\* and when one of two connections of a user in a room leaves it or closes,
\* the user stays on the roster and no user_left is sent for that user.
C30_RosterCountsConnections ==
  [][\A g \in GroupIds, u \in Users :
       /\ Quiet'
            => ((g \in DOMAIN onlineUsers' /\ u \in DOMAIN onlineUsers'[g])
                  <=> \E c \in rooms'[g] :
                        sockState'[c] = "connected" /\ sockUser'[c] = u)
       /\ (Cardinality(Tabs(g, u)) = 2
             /\ \E c \in Tabs(g, u) :
                  c \notin rooms'[g] \/ sockState'[c] # "connected")
            => /\ g \in DOMAIN onlineUsers'
               /\ u \in DOMAIN onlineUsers'[g]
               /\ \A i \in 1..Len(emitted') :
                    ~(emitted'[i].ev = "user_left" /\ emitted'[i].userId = u)
    ]_vars

\* C31: every live connection in the room of a group belongs to a user of
\* the group's stored member list, and so does every user on its roster.
C31_RoomsHoldMembersOnly ==
  \A g \in GroupIds :
    /\ \A c \in Live(rooms[g]) :
         Exists(groups[g]) /\ IsMember(groups[g].members, sockUser[c])
    /\ g \in DOMAIN onlineUsers
         => \A u \in DOMAIN onlineUsers[g] :
              Exists(groups[g]) /\ IsMember(groups[g].members, u)

\* C32: a typing, stop_typing or user_left event that a connection causes
\* for a group whose room it is not in (the event is then addressed to the
\* whole room, no sender being taken out of it) reaches no connection, and
\* the step leaves every roster as it was.
C32_OutsidersCannotAffectRoom ==
  [][\A i \in 1..Len(emitted') :
       (emitted'[i].ev \in {"typing", "stop_typing", "user_left"}
          /\ emitted'[i].to = rooms[emitted'[i].room])
         => /\ Live(emitted'[i].to) = {}
            /\ onlineUsers' = onlineUsers
    ]_vars

\* C33: when a leave request is answered with 200, and nobody joins over
\* REST, the group either no longer exists or its member list does not hold
\* the user who left, whatever other leave requests overlap with it.
C33_CompletedLeaveRemovesMember ==
  [][(resp'.status = 200 /\ resp'.kind = "leave")
       => \/ ~Exists(groups'[resp'.group])
          \/ ~IsMember(groups'[resp'.group].members, resp'.user)
    ]_vars

\* the positions of user u in a member list
EntriesOf(members, u) == {i \in 1..Len(members) : members[i].userId = u}

\* what the write of a join request does when another join of the same user
\* has written since its check, count(q) being the number of entries the
\* user then has: the request is not refused, the entries of the user
\* differ in joinedAt only, and the request ends with 200
DoubleJoin(count(_)) ==
  \A r \in ReqIds :
    LET q == reqs[r] IN
    /\ (q.pc = "join_update" /\ reqs'[r] # q
          /\ IsMember(groups[q.group].members, q.user))
         => /\ reqs'[r].pc = "join_user"
            /\ Cardinality(EntriesOf(groups'[q.group].members, q.user)) = count(q)
            /\ \A i, j \in EntriesOf(groups'[q.group].members, q.user) :
                 [groups'[q.group].members[i] EXCEPT !.joinedAt = 0]
                   = [groups'[q.group].members[j] EXCEPT !.joinedAt = 0]
    /\ (q.pc = "join_user" /\ reqs'[r] # q) => resp'.status = 200
TwoEntries(q) == 2
TwoEntriesUnlessSameTime(q) ==
  IF q.newMember \in Range(groups[q.group].members) THEN 1 ELSE 2

\* C34 as stated: of two overlapping joins of one user that both passed the
\* membership check, both succeed, and the member list then holds two
\* entries for the user, which differ in joinedAt only.
C34_BothJoinsAppend == [][DoubleJoin(TwoEntries)]_vars

\* C34, amended: the same, with two entries when the joinedAt values of the
\* two requests differ and one entry when they are equal.
C34_BothJoinsSucceed == [][DoubleJoin(TwoEntriesUnlessSameTime)]_vars

\* both joins of u3 have written and the member list of g1 holds u3 twice
C34_Witness ==
  /\ resp.status = 200
  /\ resp.kind = "join"
  /\ Quiet
  /\ Cardinality(EntriesOf(groups["g1"].members, "u3")) = 2

\* C35: the message ids being handed out in the order in which the one
\* connection sent the messages, a message is broadcast only when no message
\* sent before it is still awaiting its write, and the history lists the
\* messages in the order sent.
C35_SentOrderKept ==
  [][/\ \A r, r2 \in ReqIds :
          (reqs[r].pc = "sock_send" /\ reqs'[r] = Idle /\ reqs[r2].pc = "sock_send")
            => reqs[r2].message.messageId >= reqs[r].message.messageId
     /\ (resp'.status = 200 /\ resp'.kind = "get_messages")
          => \A i, j \in 1..Len(resp'.body) :
               i < j => resp'.body[i].messageId < resp'.body[j].messageId
    ]_vars

\* C36: the next call takes as cursor the createdAt of the oldest message of
\* the page, and returns only messages strictly before it; so paging yields
\* every message once exactly when each message that a page leaves out
\* (of those the request asked for) is strictly older than the oldest
\* message of that page.
C36_PagingYieldsAll ==
  [][\A r \in ReqIds :
       (reqs[r].pc = "get_messages" /\ reqs'[r] = Idle
          /\ resp'.status = 200 /\ resp'.body # <<>>)
         => \A m \in Asked(reqs[r]) \ Range(resp'.body) :
              m.createdAt < resp'.body[1].createdAt
    ]_vars

\* C37: a PUT of a note without a content field, for a group that does not
\* exist or by a caller who is no member is answered 400, 404 or 403; the
\* note and the history of every group stay as they were and no
\* note_updated is emitted.
C37_RejectedSaveChangesNothing ==
  [][(/\ resp'.status # 0
      /\ resp'.kind = "put_note"
      /\ \/ ~resp'.valid
         \/ ~Exists(groups[resp'.group])
         \/ ~IsMember(groups[resp'.group].members, resp'.user))
       => /\ resp'.status \in {400, 403, 404}
          /\ UNCHANGED <<notes, noteHistory>>
          /\ \A i \in 1..Len(emitted') : emitted'[i].ev # "note_updated"
    ]_vars

\* u3, no member of g1, has been refused a save of g1's note, which exists
\* and has an archived version
C37_Witness ==
  /\ resp.status = 403
  /\ resp.kind = "put_note"
  /\ resp.group = "g1"
  /\ resp.valid
  /\ notes["g1"].exists
  /\ noteHistory["g1"] # <<>>

\* the entries of the displayed list that show message id
Shown(id) ==
  {i \in 1..Len(chatView.messages) : chatView.messages[i].messageId = id}

\* C38: no two entries of the displayed list share a messageId, and once
\* the history has arrived every new_message the component has received
\* is in the list.
C38_ReceivedMessagesShown ==
  /\ \A i \in 1..Len(chatView.messages) :
       Cardinality(Shown(chatView.messages[i].messageId)) = 1
  /\ chatView.phase = "loaded"
       => \A id \in chatView.got : Cardinality(Shown(id)) = 1

\* C39: a failed password login does not reveal whether the email is
\* registered: every valid login request that is refused, whether its email is
\* unregistered, registered with another password, or that of an account
\* created through Google login, is answered 401 "Invalid email or password."
C39_FailedLoginUniform ==
  (resp.status = 401 /\ resp.kind = "login")
    => resp.message = "Invalid email or password."

====
